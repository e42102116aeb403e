------------------------------- MODULE Crossfade -------------------------------
(***************************************************************************)
(* The fade-out at a switch away from this machine                         *)
(* (crates/audio/src/playback.rs): trigger_crossfade stores two atomics,   *)
(* the real-time output callback loads both and stores one, and neither    *)
(* waits for the other. The loads are Relaxed, so that the Release of the  *)
(* second store orders nothing for them. Each atomic is therefore the      *)
(* history of its stores, in modification order: a load returns any store  *)
(* not older than what its thread has loaded or stored of that atomic, and *)
(* a store goes anywhere after that. (trigger_crossfade loads nothing, and *)
(* is called by one thread: what it stores may come last.)                 *)
(***************************************************************************)
EXTENDS Integers, Sequences

CONSTANTS
  Fades,     \* lengths of the fades triggered, in samples
  MaxFades,  \* bound on their number
  Period     \* samples per output callback

ASSUME CrossfadeAssumption ==
  Fades \subseteq Nat /\ MaxFades \in Nat /\ Period \in Nat \ {0}

VARIABLES
  total,      \* the stores of crossfade_total: a length for each fade, 0 before the first
  remaining,  \* the stores of crossfade_remaining: [of, value], of the fade with that total
  trigger,    \* trigger_crossfade: [left, stored], stored says that the total is
  callback,   \* the output callback: [at, total, remaining], the stores it saw last
  overlapped, \* ghost: a fade was triggered before the last one had ended
  lost        \* ghost: what is left of a fade was stored over a later one

fadeVars == <<total, remaining, trigger, callback, overlapped, lost>>

FadeInit ==
  /\ total = <<0>> /\ remaining = <<[of |-> 1, value |-> 0]>>
  /\ trigger = [left |-> MaxFades, stored |-> FALSE]
  /\ callback = [at |-> "rest", total |-> 1, remaining |-> 1]
  /\ overlapped = FALSE /\ lost = FALSE

Left == remaining[callback.remaining].value

(* Mutant of LoadRemaining: a callback without a fade goes on like one.    *)
LoadRemainingAlways ==
  /\ callback.at = "rest"
  /\ \E k \in callback.remaining .. Len(remaining) :
       callback' = [callback EXCEPT !.remaining = k, !.at = "total"]
  /\ UNCHANGED <<total, remaining, trigger, overlapped, lost>>

(* A callback that sees no fade leaves the samples as they are. *)
LoadRemaining ==
  /\ callback.at = "rest"
  /\ \E k \in callback.remaining .. Len(remaining) :
       callback' = [callback EXCEPT !.remaining = k,
                                    !.at = IF remaining[k].value > 0 THEN "total" ELSE "rest"]
  /\ UNCHANGED <<total, remaining, trigger, overlapped, lost>>

LoadTotal ==
  /\ callback.at = "total"
  /\ \E k \in callback.total .. Len(total) :
       callback' = [callback EXCEPT !.total = k, !.at = IF total[k] > 0 THEN "scale" ELSE "rest"]
  /\ UNCHANGED <<total, remaining, trigger, overlapped, lost>>

(* The samples are scaled by Left over the total, falling to 0 or to what  *)
(* is left of the fade (saturating_sub), which is stored.                  *)
NewRemaining == [of |-> remaining[callback.remaining].of,
                 value |-> IF Left > Period THEN Left - Period ELSE 0]

StoreRemaining ==
  /\ callback.at = "scale"
  /\ \E k \in callback.remaining .. Len(remaining) :
       /\ remaining' = SubSeq(remaining, 1, k) \o <<NewRemaining>>
                         \o SubSeq(remaining, k + 1, Len(remaining))
       /\ callback' = [callback EXCEPT !.at = "rest", !.remaining = k + 1]
       /\ lost' = (lost \/ k > callback.remaining)
  /\ UNCHANGED <<total, trigger, overlapped>>

(* Two stores: the total, and as much remaining. *)
TriggerCrossfade ==
  /\ \/ /\ ~trigger.stored /\ trigger.left > 0
        /\ trigger' = [left |-> trigger.left - 1, stored |-> TRUE]
        /\ \E n \in Fades : total' = Append(total, n)
        /\ overlapped' = \/ overlapped
                         \/ remaining[Len(remaining)].value > 0
                         \/ callback.at # "rest" /\ Left > 0
        /\ UNCHANGED remaining
     \/ /\ trigger.stored
        /\ trigger' = [trigger EXCEPT !.stored = FALSE]
        /\ remaining' = Append(remaining, [of |-> Len(total), value |-> total[Len(total)]])
        /\ UNCHANGED <<total, overlapped>>
  /\ UNCHANGED <<callback, lost>>

FadeNext == LoadRemaining \/ LoadTotal \/ StoreRemaining \/ TriggerCrossfade

FadeSpec == FadeInit /\ [][FadeNext]_fadeVars

-----------------------------------------------------------------------------
(* Whatever the callback gets to see of the stores and in whatever order:  *)
(* a fade is played from its beginning unless it was triggered within the  *)
(* fade before, and the samples get louder only where the callback scales  *)
(* by the remainder of one fade and the length of another. (That it may do *)
(* without any overlap, for want of an Acquire.)                           *)
FadesApart ==
  /\ lost => overlapped
  /\ callback.at = "scale" /\ Left > total[callback.total] =>
       remaining[callback.remaining].of # callback.total
=============================================================================
