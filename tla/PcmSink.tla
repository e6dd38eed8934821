-------------------------------- MODULE PcmSink --------------------------------
(***************************************************************************)
(* What BadAppleAudio.sys promises the program that talks to it, with      *)
(* nothing of how it keeps the promise: one stream for the whole device,   *)
(* started only by an accepted CONFIGURE and ended by anything else that   *)
(* touches the stream, refused or not.  Every request is answered, and     *)
(* the answer tells the truth about the stream.                            *)
(***************************************************************************)
CONSTANT Formats     \* the formats a stream may have

VARIABLES stream,    \* {f} while samples of format f are played, {} otherwise
          answer     \* the last request and what became of it

vars == <<stream, answer>>

\* "malformed" is the answer to a request that was not even looked at.
Results == {"accepted", "refused", "malformed"}

Answered(op, result) == answer' = [op |-> op, result |-> result]

Init == /\ stream = {}
        /\ answer = [op |-> "OTHER", result |-> "accepted"]

\* An accepted CONFIGURE starts a stream of the requested format.
Start(f) == /\ stream' = {f}
            /\ Answered("CONFIGURE", "accepted")

\* A refused CONFIGURE never leaves the earlier stream running.
Refuse == /\ stream' = {}
          /\ Answered("CONFIGURE", "refused")

\* A WRITE is accepted exactly while a stream is running.
Write == /\ UNCHANGED stream
         /\ Answered("WRITE", IF stream # {} THEN "accepted" ELSE "refused")

\* A request too short to be looked at does not touch the stream.
Reject(op) == /\ UNCHANGED stream
              /\ Answered(op, "malformed")

\* STOP, the open or close of any handle, and the PnP stop and remove.
Halt(op) == /\ stream' = {}
            /\ Answered(op, "accepted")

\* Requests that have nothing to do with the stream.
Other(result) == /\ UNCHANGED stream
                 /\ Answered("OTHER", result)

Next == \/ \E f \in Formats : Start(f)
        \/ Refuse
        \/ Write
        \/ \E op \in {"CONFIGURE", "WRITE"} : Reject(op)
        \/ \E op \in {"STOP", "CREATE", "CLOSE", "PNP"} : Halt(op)
        \/ \E result \in Results : Other(result)

Spec == Init /\ [][Next]_vars

================================================================================
