------------------------------- MODULE TimeSpec -------------------------------
(***************************************************************************)
(* The struct timespec arithmetic of fev_time.h, used for every deadline:  *)
(* fev_timespec_cmp() orders timers (fev_timers_binheap.c, fev_timers.c),  *)
(* fev_get_abs_time_since_now() turns the relative timeouts of the _for()  *)
(* calls into deadlines, fev_timespec_abs_to_rel() and                     *)
(* fev_timespec_to_ns() turn deadlines back into poller timeouts.          *)
(*                                                                         *)
(* The widths are scaled down: NsPerSec stands for FEV_NSECS_PER_SEC,      *)
(* TimeBits is the width of the signed time_t and U64Bits that of          *)
(* uint64_t.  A timestamp is a record [sec, nsec]; the clock reading is an *)
(* argument.  Signed overflow of tv_sec is undefined behaviour; the build  *)
(* wraps it, and so does the model.                                        *)
(***************************************************************************)
EXTENDS Integers

CONSTANTS
    NsPerSec,   \* FEV_NSECS_PER_SEC
    TimeBits,   \* bits of time_t (signed)
    U64Bits     \* bits of uint64_t

ASSUME NsPerSec >= 2 /\ TimeBits >= 2 /\ U64Bits >= 2

SecMax == 2^(TimeBits - 1) - 1
U64Max == 2^U64Bits - 1

\* The valid timespecs of fev_timespec_assert_valid().
Timespecs == [sec : 0 .. SecMax, nsec : 0 .. NsPerSec - 1]

Ts(s, n) == [sec |-> s, nsec |-> n]

\* Two's complement wrap-around of a time_t.
WrapTime(x) == ((x + 2^(TimeBits - 1)) % 2^TimeBits) - 2^(TimeBits - 1)

\* fev_timespec_cmp(): the difference of the seconds, else of the
\* nanoseconds (time_t is long).
TimespecCmp(l, r) == IF l.sec # r.sec THEN l.sec - r.sec ELSE l.nsec - r.nsec

\* Mutant: the borrow from the seconds is not taken.
AbsToRelNoBorrow(now, abs) ==
    IF TimespecCmp(now, abs) >= 0 THEN Ts(0, 0)
    ELSE Ts(abs.sec - now.sec, (abs.nsec - now.nsec) % NsPerSec)

\* fev_timespec_abs_to_rel() at clock reading `now`: zero if the deadline
\* has passed, else the difference with a borrow from the seconds.
AbsToRel(now, abs) ==
    IF TimespecCmp(now, abs) >= 0 THEN Ts(0, 0)
    ELSE IF abs.nsec - now.nsec < 0
         THEN Ts(abs.sec - now.sec - 1, abs.nsec - now.nsec + NsPerSec)
         ELSE Ts(abs.sec - now.sec, abs.nsec - now.nsec)

\* fev_get_abs_time_since_now() at clock reading `now`.
GetAbsTimeSinceNow(now, rel) ==
    Ts(WrapTime(now.sec + rel.sec + (now.nsec + rel.nsec) \div NsPerSec),
       (now.nsec + rel.nsec) % NsPerSec)

\* Mutant: sec * FEV_NSECS_PER_SEC is computed without the saturation test
\* and wraps.
TimespecToNsWrap(ts) ==
    LET x == (ts.sec * NsPerSec) % 2^U64Bits
        r == (x + ts.nsec) % 2^U64Bits
    IN IF r < x THEN U64Max ELSE r

\* fev_timespec_to_ns(): saturates at UINT64_MAX, in the multiplication and
\* in the addition (an unsigned sum that wraps is smaller than an operand).
TimespecToNs(ts) ==
    LET x == IF ts.sec > U64Max \div NsPerSec THEN U64Max ELSE ts.sec * NsPerSec
        r == (x + ts.nsec) % 2^U64Bits
    IN IF r < x THEN U64Max ELSE r

-----------------------------------------------------------------------------
(* The reference: a timespec is the number of nanoseconds it denotes.      *)

Exact(ts) == ts.sec * NsPerSec + ts.nsec

Sign(x) == IF x > 0 THEN 1 ELSE IF x < 0 THEN -1 ELSE 0

CappedNs(n) == IF n > U64Max THEN U64Max ELSE n

\* Every deadline computation of fev_time.h agrees with exact arithmetic on
\* all valid timespecs: fev_timespec_cmp() orders as the nanosecond counts
\* do; fev_timespec_abs_to_rel() returns a valid timespec that is the time
\* left (zero once the deadline has passed); fev_timespec_to_ns() is the
\* count saturated at UINT64_MAX; and fev_get_abs_time_since_now() is a
\* valid timespec equal to now + rel whenever that fits in time_t.
TimeArithmeticCorrect ==
    /\ \A l, r \in Timespecs :
          Sign(TimespecCmp(l, r)) = Sign(Exact(l) - Exact(r))
    /\ \A now, abs \in Timespecs :
          /\ AbsToRel(now, abs) \in Timespecs
          /\ Exact(AbsToRel(now, abs)) =
                IF Exact(abs) > Exact(now) THEN Exact(abs) - Exact(now) ELSE 0
    /\ \A ts \in Timespecs : TimespecToNs(ts) = CappedNs(Exact(ts))
    /\ \A now, rel \in Timespecs :
          Exact(now) + Exact(rel) < (SecMax + 1) * NsPerSec =>
             /\ GetAbsTimeSinceNow(now, rel) \in Timespecs
             /\ Exact(GetAbsTimeSinceNow(now, rel)) = Exact(now) + Exact(rel)

=============================================================================
