------------------------------ MODULE Replacer ------------------------------
(***************************************************************************)
(* What the buffer pool expects of a Replacer (Replacer.h): it holds the   *)
(* frames that may be evicted and hands them out in the order in which     *)
(* they were last unpinned.  pin withdraws a frame, unpin makes it the     *)
(* most recent one, victim removes and returns the least recent one.       *)
(***************************************************************************)
EXTENDS RecencyList

CONSTANTS Frames,   \* the frame identifiers
          NoFrame   \* victim() found nothing to return

VARIABLES lru,      \* the evictable frames, least recently unpinned first
          victimOut \* what the last call of victim() stored in *frame_id

vars == <<lru, victimOut>>

Init == lru = <<>> /\ victimOut = NoFrame

Victim ==
    /\ lru # <<>>
    /\ victimOut' = Head(lru)
    /\ lru' = Tail(lru)

Pin(f) ==
    /\ lru' = Without(lru, f)
    /\ victimOut' = NoFrame

Unpin(f) ==
    /\ lru' = Touched(lru, f)
    /\ victimOut' = NoFrame

Next == Victim \/ \E f \in Frames : Pin(f) \/ Unpin(f)

Spec == Init /\ [][Next]_vars

=============================================================================
