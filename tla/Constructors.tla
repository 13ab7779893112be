---------------------------- MODULE Constructors ----------------------------
(***************************************************************************)
(* The constructors of src/entropy.rs over one MonotonicEntropy that its   *)
(* owner also reads directly and whose public field `inc` it assigns.      *)
(*                                                                         *)
(* new_monotonic continues the run of the source; new reads the same       *)
(* source plainly, although its documentation (entropy.rs:61-64) says that *)
(* monotonic_read is used.  must_new is new with its error turned into a   *)
(* panic of the caller, which holds no lock here.                          *)
(***************************************************************************)
EXTENDS MonotonicEntropy

CONSTANTS MaxTime,   \* the largest time a ULID holds, 2^48 - 1 in the code
          MaxCalls   \* bound on the number of logged reads

ASSUME ConstructorsAssumption == MaxTime \in Nat /\ MaxCalls \in Nat

VARIABLE made   \* history: what the callers got from their reads, oldest first:
                \* the time and the bytes, or (ok = FALSE) an overflow

constructorVars == <<ms, entropy, inc, log, result, made>>

ConstructorsInit == Init /\ made = <<>>

\* The check of set_time, which every constructor makes first.
Fits(t) == t <= MaxTime

\* Mutant of BigTime: the time is checked after the read of the source.
BigTimeLate(t) == ~Fits(t) /\ (Refill(t) \/ Bump(t)) /\ UNCHANGED made

\* set_time fails, and `?` leaves the constructor before the source is touched.
BigTime(t) ==
  /\ ~Fits(t)
  /\ result' = "BigTime"
  /\ UNCHANGED <<ms, entropy, inc, log, made>>

\* A read of the source for t, and what its caller gets; dst is not written on
\* overflow.
Read(t) ==
  /\ Refill(t) \/ Bump(t)
  /\ made' = Append(made,
       [ms |-> t, dst |-> IF result' = "ok" THEN append_to(entropy') ELSE ZeroFields,
        ok |-> result' = "ok"])

\* new_monotonic(t, Some(source)): the bytes read become the entropy of the ULID,
\* and an overflow the error of the call.
NewMonotonic(t) == Fits(t) /\ Read(t)

\* new_monotonic(t, Some(source)): the inner source fails.
NewMonotonicFails(t) == Fits(t) /\ SourceError(t) /\ UNCHANGED made

\* new(t, Some(source))
New(t) == Fits(t) /\ PlainRead /\ UNCHANGED made

\* new(t, None), new_monotonic(t, None) and with_time_only(t)
TimeOnly(t) ==
  /\ Fits(t)
  /\ result' = "ok"
  /\ UNCHANGED <<ms, entropy, inc, log, made>>

\* The owner reads the source directly, also for times no ULID holds, or assigns
\* inc.
Direct == (\E t \in Ms : Read(t)) \/ (NoWrite /\ UNCHANGED made)

Constructed ==
  \E t \in Ms :
    BigTime(t) \/ NewMonotonic(t) \/ NewMonotonicFails(t) \/ New(t) \/ TimeOnly(t)

\* The constructors under any number of calls.
ConstructorsSpec ==
  ConstructorsInit /\ [][Constructed \/ Direct]_constructorVars

\* The same with at most MaxCalls logged reads.
BoundedNext == (Constructed \/ Direct) /\ Len(log') <= MaxCalls

BoundedSpec == ConstructorsInit /\ [][BoundedNext]_constructorVars

-----------------------------------------------------------------------------
\* The order of ULIDs: time first, then entropy.
UlidLess(a, b) == a.ms < b.ms \/ (a.ms = b.ms /\ LexLess(a.dst, b.dst))

\* Answers i to j have times that never go back, none is an overflow, and only
\* the last may be all zero.
Forward(i, j) ==
  /\ \A k \in i .. j : made[k].ok
  /\ \A k \in i .. j - 1 : made[k].ms <= made[k+1].ms /\ made[k].dst # ZeroFields

\* The ULIDs of new_monotonic, and the times and bytes of direct monotonic reads
\* among them, sort in the order in which their callers got them, while the times
\* do not go back and no read overflowed or returned ten zero bytes: whatever plain
\* reads, time-only constructors, source errors, short buffers, constructors with a
\* time that does not fit and assignments to inc happened in between.
UlidsIncrease ==
  \A i, j \in 1 .. Len(made) : i < j /\ Forward(i, j) => UlidLess(made[i], made[j])

\* The last answer is what the source continues from.
MadeTracksState ==
  made # <<>> /\ made[Len(made)].ok =>
    /\ ms = made[Len(made)].ms
    /\ append_to(entropy) = made[Len(made)].dst

CInv ==
  /\ IInv
  /\ made \in Seq([ms : Ms, dst : Fields, ok : BOOLEAN])
  /\ MadeTracksState
  /\ UlidsIncrease
=============================================================================
