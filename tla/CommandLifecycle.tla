-------------------------- MODULE CommandLifecycle --------------------------
(***************************************************************************)
(* What a session promises about its commands, without brokers, sockets or *)
(* storage: the rows a controller can read, the runner instance that is    *)
(* current, and whether the session is over. A command is refused or goes  *)
(* out to the current instance, is decided only by that instance while it  *)
(* is current, and stays decided while the session lasts. The one way back *)
(* is unknown, which a late result may still decide.                       *)
(***************************************************************************)
CONSTANTS Commands, Runners, None

VARIABLES
  row,      \* [state, runner] of each command
  current,  \* the runner instance, None before the first
  over      \* revoked or expired

States    == {"absent", "sent_to_runner", "runner_acknowledged", "succeeded", "failed", "unknown"}
Undecided == {"sent_to_runner", "runner_acknowledged", "unknown"}

Init ==
  /\ row = [c \in Commands |-> [state |-> "absent", runner |-> None]]
  /\ current = None
  /\ over = FALSE

\* The legal moves of one row from p to q.
Refused(p, q)      == p.state = "absent" /\ q = [state |-> "failed", runner |-> None]
Dispatched(p, q)   == p.state = "absent" /\ current' # None
                      /\ q = [state |-> "sent_to_runner", runner |-> current']
Acknowledged(p, q) == p.state = "sent_to_runner" /\ p.runner = current'
                      /\ q = [p EXCEPT !.state = "runner_acknowledged"]
Decided(p, q)      == p.state \in Undecided /\ p.runner = current'
                      /\ \E st \in {"succeeded", "failed"} : q = [p EXCEPT !.state = st]
GivenUp(p, q)      == (p.state \in Undecided \/ over)
                      /\ p.state # "absent"
                      /\ q = [p EXCEPT !.state = "unknown"]

Move(p, q) ==
  Refused(p, q) \/ Dispatched(p, q) \/ Acknowledged(p, q) \/ Decided(p, q) \/ GivenUp(p, q)

Next ==
  /\ row' \in [Commands -> [state : States, runner : Runners \cup {None}]]
  /\ \A c \in Commands : row'[c] = row[c] \/ Move(row[c], row'[c])
  /\ current' \in Runners \cup {None}
  /\ current' # None \/ current = None
  /\ over => over' /\ current' = current

Spec == Init /\ [][Next]_<<row, current, over>>
=============================================================================
