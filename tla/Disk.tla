---------------------------------- MODULE Disk ----------------------------------
(***************************************************************************)
(* What a read of a disk promises: the bytes asked for arrive in order,    *)
(* each where it belongs, and none behind the caller's buffer.  They are   *)
(* the disk's own for as long as the device behaves; once it has not       *)
(* (`spoilt'), their number and their places are still right.              *)
(***************************************************************************)
EXTENDS Integers, Sequences

CONSTANTS Drives, Sizes, Offsets,
          At(_, _)      \* the byte of a drive at an offset

VARIABLES request,      \* [drive, offset, size], or Idle
          answer,       \* the caller's buffer so far
          spoilt

diskVars == <<request, answer, spoilt>>

Idle == [drive |-> "none", offset |-> 0, size |-> 0]

Init == request = Idle /\ answer = <<>> /\ spoilt \in BOOLEAN

\* Whether the device will behave for a new request is not for the disk to say.
Ask ==
  /\ request = Idle
  /\ \E d \in Drives, offset \in Offsets, size \in Sizes :
       request' = [drive |-> d, offset |-> offset, size |-> size]
  /\ answer' = <<>>
  /\ spoilt' \in BOOLEAN

Deliver ==
  /\ request # Idle
  /\ Len(answer') \in Len(answer) .. request.size
  /\ SubSeq(answer', 1, Len(answer)) = answer
  /\ spoilt \/ \A i \in Len(answer) + 1 .. Len(answer') :
                 answer'[i] = At(request.drive, request.offset + i - 1)
  /\ UNCHANGED <<request, spoilt>>

Spoil == spoilt' = TRUE /\ UNCHANGED <<request, answer>>

Return ==
  /\ request # Idle
  /\ Len(answer) = request.size
  /\ request' = Idle
  /\ UNCHANGED <<answer, spoilt>>

\* Between two requests the disk is used for something else.
OtherUse == request = Idle /\ request' = Idle /\ answer' = <<>> /\ spoilt' \in BOOLEAN

Next == Ask \/ Deliver \/ Spoil \/ Return \/ OtherUse

Spec == Init /\ [][Next]_diskVars
=============================================================================
