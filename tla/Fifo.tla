-------------------------------- MODULE Fifo --------------------------------
(***************************************************************************)
(* What the buffers of the server promise: what is handed in comes out     *)
(* once, unchanged and in order, or is still inside.  The send ring, the   *)
(* receive buffer and the job buffers each implement it.                   *)
(***************************************************************************)
EXTENDS Sequences

VARIABLES
  queue,    \* what is inside
  handed,   \* what the last step handed in, <<>> if it handed in nothing
  arrived   \* what the last step took out, <<>> if it took nothing

vars == <<queue, handed, arrived>>

Init == queue = <<>> /\ handed = <<>> /\ arrived = <<>>

Put ==
  /\ handed' # <<>> /\ arrived' = <<>>
  /\ queue' = queue \o handed'

Get ==
  /\ handed' = <<>> /\ arrived' # <<>>
  /\ queue = arrived' \o queue'

Rest ==
  /\ handed' = <<>> /\ arrived' = <<>>
  /\ queue' = queue

Next == Put \/ Get \/ Rest

Spec == Init /\ [][Next]_vars

=============================================================================
