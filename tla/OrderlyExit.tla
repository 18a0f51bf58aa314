------------------------------ MODULE OrderlyExit ------------------------------
(***************************************************************************)
(* What the end of a server process promises, without its promises, its    *)
(* Redis client and its timers: the first trigger closes the process to    *)
(* new requests and settles its exit code; the cache is released once      *)
(* nobody waits for an answer any more, the database is left after the     *)
(* cache, and the process departs last.  It may be cut short, which is     *)
(* always reported as a failure, but not while it is open; and a signal    *)
(* lets a hook of the database end it at any moment.  Lifecycle implements *)
(* this.                                                                   *)
(***************************************************************************)
CONSTANT Requests

VARIABLES
  waiting,    \* the requests whose client waits for an answer
  phase,      \* how far the process is
  code,       \* the exit code the first trigger settled
  signalled,  \* a signal has arrived
  database,   \* the connection pool
  ending      \* how the process ended

exitVars == <<waiting, phase, code, signalled, database, ending>>

NotEnded == [how |-> "running", code |-> 0]
Running == ending = NotEnded
End(how, with) == ending' = [how |-> how, code |-> with]

Init ==
  /\ waiting = {}
  /\ phase = "starting"
  /\ code = 0
  /\ signalled = FALSE
  /\ database = "connected"
  /\ ending = NotEnded

Open ==
  /\ phase = "starting"
  /\ phase' = "open"
  /\ UNCHANGED <<waiting, code, signalled, database, ending>>

Serve(r) ==
  /\ phase = "open"
  /\ waiting' = waiting \cup {r}
  /\ UNCHANGED <<phase, code, signalled, database, ending>>

(* A request is answered, fails or is given up.                            *)
Leave(r) ==
  /\ waiting' = waiting \ {r}
  /\ UNCHANGED <<phase, code, signalled, database, ending>>

(* The first trigger that is heard: a signal asks for 0, a fault for 1.    *)
Stop(with) ==
  /\ phase \in {"starting", "open"}
  /\ phase' = "draining"
  /\ code' = with
  /\ signalled' = (signalled \/ with = 0)
  /\ UNCHANGED <<waiting, database, ending>>

(* A signal that begins nothing.                                           *)
Signal ==
  /\ signalled' = TRUE
  /\ UNCHANGED <<waiting, phase, code, database, ending>>

Advance ==
  /\ \/ phase = "draining" /\ waiting = {} /\ phase' = "releasing"
     \/ phase = "releasing" /\ phase' = "released"
     \/ phase = "released" /\ phase' = "parting"
  /\ UNCHANGED <<waiting, code, signalled, database, ending>>

Depart ==
  /\ phase = "parting"
  /\ database' = "disconnected"
  /\ End("orderly", code)
  /\ UNCHANGED <<waiting, phase, code, signalled>>

CutShort ==
  /\ phase # "open"
  /\ End("cut_short", 1)
  /\ UNCHANGED <<waiting, phase, code, signalled, database>>

HookExit ==
  /\ signalled
  /\ \/ database' = "disconnected" /\ End("hook", 0)
     \/ UNCHANGED database /\ End("hook", 1)
  /\ UNCHANGED <<waiting, phase, code, signalled>>

Next ==
  /\ Running
  /\ \/ Open
     \/ \E r \in Requests : Serve(r) \/ Leave(r)
     \/ \E with \in {0, 1} : Stop(with)
     \/ Signal
     \/ Advance
     \/ Depart
     \/ CutShort
     \/ HookExit

Spec == Init /\ [][Next]_exitVars
=============================================================================
