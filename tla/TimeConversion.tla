--------------------------- MODULE TimeConversion ---------------------------
(***************************************************************************)
(* quiksync_client/time_conv.py: the milliseconds of a state frame as the  *)
(* seconds and nanoseconds of builtin_interfaces/Time.  Python's // and %  *)
(* round towards minus infinity, as \div and % do here, so the laws below  *)
(* hold for times before the epoch too.                                    *)
(***************************************************************************)
EXTENDS Integers, TLAPS

MsPerSec == 1000
NsPerMs == 1000000
NsPerSec == MsPerSec * NsPerMs

MillisToTimeParts(millis) ==
  [sec |-> millis \div MsPerSec, nanosec |-> (millis % MsPerSec) * NsPerMs]

(* No time is lost or invented: the two parts add up to the milliseconds of *)
(* the frame, for every integer.                                            *)
THEOREM PartsAddUp ==
  \A millis \in Int :
    LET t == MillisToTimeParts(millis)
    IN  t.sec * NsPerSec + t.nanosec = millis * NsPerMs
BY SMT DEF MillisToTimeParts, MsPerSec, NsPerMs, NsPerSec

(* nanosec is a fraction of a second, and never negative, whatever the sign *)
(* of the time: the uint32 field of the message can hold it.                *)
THEOREM NanosecIsAFraction ==
  \A millis \in Int :
    LET t == MillisToTimeParts(millis)
    IN  t.nanosec \in Nat /\ t.nanosec < NsPerSec
<1> SUFFICES ASSUME NEW millis \in Int
             PROVE  LET t == MillisToTimeParts(millis)
                    IN  t.nanosec \in Nat /\ t.nanosec < NsPerSec
  OBVIOUS
<1>1. PICK ms \in Int : millis % 1000 = ms /\ 0 <= ms /\ ms < 1000
  BY SMT
<1>2. MillisToTimeParts(millis).nanosec = ms * 1000000
  BY <1>1, SMT DEF MillisToTimeParts, MsPerSec, NsPerMs
<1>3. ms * 1000000 \in Nat /\ ms * 1000000 < 1000000000
  BY <1>1, SMT
<1>4. QED
  BY <1>2, <1>3, SMT DEF NsPerSec, MsPerSec, NsPerMs

(* Two frames keep their order: a later time never has the smaller pair.    *)
THEOREM OrderIsKept ==
  \A earlier, later \in Int :
    earlier < later =>
      LET s == MillisToTimeParts(earlier)
          t == MillisToTimeParts(later)
      IN  s.sec < t.sec \/ (s.sec = t.sec /\ s.nanosec < t.nanosec)
BY SMT DEF MillisToTimeParts, MsPerSec, NsPerMs, NsPerSec
=============================================================================
