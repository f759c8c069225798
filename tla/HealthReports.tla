---------------------------- MODULE HealthReports ----------------------------
(***************************************************************************)
(* health/reporter.py and the backlog of health/degraded.py.  report_once  *)
(* runs on two coroutines: the reporter's own loop, and the shutdown of    *)
(* main.py, which sends a final report beside it.  Each takes a snapshot   *)
(* of the backlog, awaits the batch insert with its retries, and touches   *)
(* the backlog again only afterwards.                                      *)
(*                                                                         *)
(* A report is the name of one of the reports that exist at one time, and  *)
(* whether it was composed with a router_id.  Time is the number of        *)
(* backlog entries that are past local_queue_max_age_s.                    *)
(***************************************************************************)
EXTENDS AppState, Naturals, Sequences

CONSTANTS
  Names,          \* names for the loop's reports that exist at one time
  InsertRetries   \* further attempts of one with_retry call

ASSUME NamesAssumption == Names \subseteq Nat \ {0}
ASSUME InsertRetriesAssumption == InsertRetries \in Nat

Caller == {"loop", "final"}
Final  == 0   \* the name of the one report that shutdown sends
Name   == Names \cup {Final}
Report == [name : Name, registered : BOOLEAN]

VARIABLES
  loop,       \* the reporter's task
  backlog,    \* LocalHealthQueue: reports kept for the next success
  expired,    \* how many entries at its head are past the age cap
  batch,      \* caller -> what its report_once is sending, <<>> when idle
  tries,      \* caller -> failed attempts of its with_retry call
  landed,     \* history: reports known to have landed that are still held
  doubled,    \* history: whether such a report was inserted again
  wiped       \* history: whether clear() dropped a report that never landed

reportState   == <<loop, backlog, expired, batch, tries>>
reportHistory == <<landed, doubled, wiped>>
reportVars    == <<reportState, reportHistory>>

Elements(s) == {s[i] : i \in 1..Len(s)}
NamesIn(s)  == {r.name : r \in Elements(s)}
Current(c)  == batch[c][Len(batch[c])]
Busy(c)     == batch[c] # <<>>

ReportsTypeOK ==
  /\ loop \in {"off", "on", "dead"}
  /\ backlog \in Seq(Report)
  /\ expired \in 0..Len(backlog)
  /\ batch \in [Caller -> Seq(Report)]
  /\ tries \in [Caller -> 0..InsertRetries]
  /\ landed \in SUBSET Name
  /\ doubled \in BOOLEAN /\ wiped \in BOOLEAN

ReportsInit ==
  /\ loop = "off" /\ backlog = <<>> /\ expired = 0
  /\ batch = [c \in Caller |-> <<>>] /\ tries = [c \in Caller |-> 0]
  /\ landed = {} /\ doubled = FALSE /\ wiped = FALSE

\* Mutant of Evicted: no age cap.
EvictedNever(s) == s

\* evict_old: the oldest entries go, once they are past the cap.
Evicted(s) == SubSeq(s, expired + 1, Len(s))

EntryAges ==
  /\ expired < Len(backlog)
  /\ expired' = expired + 1
  /\ UNCHANGED <<appState, reportHistory, loop, backlog, batch, tries>>

StartReporter ==
  /\ loop = "off" /\ loop' = "on"
  /\ UNCHANGED <<appState, reportHistory, backlog, expired, batch, tries>>

\* report_once up to its await: compose, and snapshot the backlog.
Begin(c, n) ==
  /\ ~Busy(c)
  /\ backlog' = Evicted(backlog) /\ expired' = 0
  /\ batch' = [batch EXCEPT ![c] =
                 Append(Evicted(backlog), [name |-> n, registered |-> routerId])]
  /\ UNCHANGED <<appState, reportHistory, loop, tries>>

Held == UNION {NamesIn(Evicted(backlog)), NamesIn(batch["loop"]), NamesIn(batch["final"])}

LoopReports ==
  /\ loop = "on"
  /\ \E n \in Names \ Held :
       (\A m \in Names \ Held : n <= m) /\ Begin("loop", n)

Finish(c) == /\ batch' = [batch EXCEPT ![c] = <<>>]
             /\ tries' = [tries EXCEPT ![c] = 0]

\* router_health.router_id is NOT NULL: the insert is one statement, so one such
\* row has the whole batch refused.
Valid(c) == \A r \in Elements(batch[c]) : r.registered

\* What executing the insert shows of earlier ones.
Inserted(c) == doubled' = (doubled \/ NamesIn(batch[c]) \cap landed # {})

\* Mutant of BatchLands: clear() is forgotten.
BatchLandsKeepsBacklog(c) ==
  /\ Busy(c) /\ reachable /\ Valid(c)
  /\ Inserted(c) /\ Finish(c)
  /\ UNCHANGED <<backlog, expired, wiped>>
  /\ landed' = NamesIn(batch[c]) \cap
                 UNION {NamesIn(backlog'), NamesIn(batch'["loop"]), NamesIn(batch'["final"])}
  /\ connected' = TRUE
  /\ UNCHANGED <<reachable, identity, loop>>

\* Success: clear() empties the backlog as it is now, not as it was sent.
BatchLands(c) ==
  /\ Busy(c) /\ reachable /\ Valid(c)
  /\ Inserted(c) /\ Finish(c)
  /\ backlog' = <<>> /\ expired' = 0
  /\ wiped' = (wiped \/ ~(NamesIn(backlog) \subseteq NamesIn(batch[c])))
  /\ landed' = NamesIn(batch[c]) \cap
                 UNION {NamesIn(backlog'), NamesIn(batch'["loop"]), NamesIn(batch'["final"])}
  /\ connected' = TRUE
  /\ UNCHANGED <<reachable, identity, loop>>

\* A 4xx drops the current report; backlog and flag stay as they are.
BatchRefused(c) ==
  /\ Busy(c) /\ reachable /\ ~Valid(c)
  /\ Finish(c)
  /\ UNCHANGED <<appState, reportHistory, loop, backlog, expired>>

\* No answer: the insert may have been executed all the same.
Unanswered(c) == UNCHANGED doubled \/ (Valid(c) /\ Inserted(c))

\* Mutant of AttemptFails: the flag is left alone.
AttemptFailsQuietly(c) ==
  /\ Busy(c) /\ ~reachable /\ Unanswered(c)
  /\ IF tries[c] < InsertRetries
     THEN /\ tries' = [tries EXCEPT ![c] = @ + 1]
          /\ UNCHANGED <<backlog, expired, batch>>
     ELSE /\ backlog' = Append(Evicted(backlog), Current(c)) /\ expired' = 0
          /\ Finish(c)
  /\ UNCHANGED <<appState, loop, landed, wiped>>

AttemptFails(c) ==
  /\ Busy(c) /\ ~reachable /\ Unanswered(c)
  /\ IF tries[c] < InsertRetries
     THEN /\ tries' = [tries EXCEPT ![c] = @ + 1]
          /\ UNCHANGED <<connected, backlog, expired, batch>>
     ELSE /\ connected' = FALSE
          /\ backlog' = Append(Evicted(backlog), Current(c)) /\ expired' = 0
          /\ Finish(c)
  /\ UNCHANGED <<reachable, identity, loop, landed, wiped>>

\* An exception that is no SupabaseError: the loop's task ends with it, the
\* final report's caller swallows it.
CallBreaks(c) ==
  /\ Busy(c) /\ ~reachable /\ Unanswered(c) /\ Finish(c)
  /\ loop' = IF c = "loop" THEN "dead" ELSE loop
  /\ UNCHANGED <<appState, landed, wiped, backlog, expired>>

\* stop(): the task is cancelled in its sleep or in its call; a request already
\* handed to a thread is executed or not, and nobody hears of it.
StopReporter ==
  /\ loop' = "off"
  /\ batch' = [batch EXCEPT !["loop"] = <<>>]
  /\ tries' = [tries EXCEPT !["loop"] = 0]
  /\ Unanswered("loop")
  /\ UNCHANGED <<appState, landed, wiped, backlog, expired>>

Answer(c) == BatchLands(c) \/ BatchRefused(c) \/ AttemptFails(c) \/ CallBreaks(c)
=============================================================================
