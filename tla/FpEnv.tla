--------------------------------- MODULE FpEnv ---------------------------------
(***************************************************************************)
(* The floating point environment.  Each hart has its own fflags and frm,  *)
(* but softfloat keeps the rounding mode it rounds with and the exceptions *)
(* it raises in two globals of the process.  The macros srm and sfx of     *)
(* arithmetic.h copy the mode in before an operation and the flags out     *)
(* after it.  A step is one access to a global.                            *)
(***************************************************************************)
EXTENDS Naturals, HartSet

CONSTANTS
  Flags,     (* exceptions                                                 *)
  RmFields,  (* rm fields of instructions; 7 stands for frm                *)
  FrmValues, (* what guests write to frm                                   *)
  FflagsValues (* what they write to fflags                                *)

ASSUME FpAssumption == /\ RmFields \subseteq 0 .. 7
                       /\ FrmValues \subseteq 0 .. 7
                       /\ FflagsValues \subseteq SUBSET Flags

VARIABLES
  roundingMode,    (* softfloat_roundingMode                               *)
  exceptionFlags,  (* softfloat_exceptionFlags, as a set                   *)
  fflags,          (* s.fflags of each hart                                *)
  frm,             (* s.frm of each hart                                   *)
  fpu,             (* the floating point instruction each hart is in       *)
  intruded,        (* harts in whose instruction another set the mode      *)
  owed,            (* what a hart's own instructions have raised since it  *)
                   (* wrote fflags, of those that fold                     *)
  written,         (* what it wrote                                        *)
  raised,          (* everything any hart has raised                       *)
  together         (* two harts have been in such instructions at once     *)

fpVars == << roundingMode, exceptionFlags, fflags, frm, fpu,
             intruded, owed, written, raised, together >>

(* What srm, the operation and sfx make of the instructions of RV-CG.def:   *)
(* most have all three; those that convert to integers give the operation   *)
(* their mode, and of them fcvt.l.d and fcvt.lu.d have no srm; fcvt.d.l and *)
(* fcvt.d.lu have no srm and give none, so that they round with the mode    *)
(* that was set last; comparisons, fmin and fmax have neither srm nor sfx.  *)
Kinds == {"rounded", "given", "nosrm", "nosfx"}

NoFp == [pc |-> "idle", kind |-> "nosfx", asked |-> 0, used |-> 0, seen |-> {}, raises |-> {}]

FpInit ==
  /\ roundingMode = 0 /\ exceptionFlags = {}
  /\ fflags = [h \in Hart |-> {}] /\ frm = [h \in Hart |-> 0]
  /\ fpu = [h \in Hart |-> NoFp]
  /\ intruded = {} /\ raised = {} /\ together = FALSE
  /\ owed = [h \in Hart |-> {}] /\ written = [h \in Hart |-> {}]

Idle(h) == fpu[h].pc = "idle"

Enter(h) == together' = (together \/ \E g \in Hart : ~Idle(g))

RM(h, rm) == IF rm = 7 THEN frm[h] ELSE rm

(* Mutant: only a dynamic rounding mode is copied.                          *)
SetModeDynamic(h) ==
  /\ Idle(h)
  /\ \E rm \in RmFields, kind \in {"rounded", "given"} :
       /\ RM(h, rm) =< 4
       /\ roundingMode' = IF rm = 7 THEN frm[h] ELSE roundingMode
       /\ fpu' = [fpu EXCEPT ![h] =
                    [NoFp EXCEPT !.pc = "operate", !.kind = kind, !.asked = RM(h, rm)]]
  /\ intruded' = (intruded \ {h}) \cup {g \in Hart \ {h} : fpu[g].pc = "operate" /\ fpu[g].kind = "rounded"}
  /\ Enter(h)
  /\ UNCHANGED << exceptionFlags, fflags, frm, owed, written, raised >>

(* srm.                                                                     *)
SetMode(h) ==
  /\ Idle(h)
  /\ \E rm \in RmFields, kind \in {"rounded", "given"} :
       /\ RM(h, rm) =< 4
       /\ roundingMode' = RM(h, rm)
       /\ fpu' = [fpu EXCEPT ![h] =
                    [NoFp EXCEPT !.pc = "operate", !.kind = kind, !.asked = RM(h, rm)]]
  /\ intruded' = (intruded \ {h}) \cup {g \in Hart \ {h} : fpu[g].pc = "operate" /\ fpu[g].kind = "rounded"}
  /\ Enter(h)
  /\ UNCHANGED << exceptionFlags, fflags, frm, owed, written, raised >>

(* die("Illegal instruction") ends the process.                             *)
IllegalMode(h) ==
  /\ Idle(h)
  /\ \E rm \in RmFields : RM(h, rm) > 4
  /\ fpu' = [fpu EXCEPT ![h].pc = "dead"]
  /\ UNCHANGED << roundingMode, exceptionFlags, fflags, frm,
                  intruded, owed, written, raised, together >>

(* Without srm; fcvt.l.d and fcvt.lu.d still evaluate RM.                   *)
StartWithoutMode(h) ==
  /\ Idle(h)
  /\ \/ \E kind \in {"nosrm", "nosfx"} :
          fpu' = [fpu EXCEPT ![h] = [NoFp EXCEPT !.pc = "operate", !.kind = kind]]
     \/ \E rm \in RmFields :
          /\ RM(h, rm) =< 4
          /\ fpu' = [fpu EXCEPT ![h] =
                       [NoFp EXCEPT !.pc = "operate", !.kind = "given", !.asked = RM(h, rm)]]
  /\ Enter(h)
  /\ UNCHANGED << roundingMode, exceptionFlags, fflags, frm,
                  intruded, owed, written, raised >>

Folds(h) == fpu[h].kind # "nosfx"

(* The mode an operation rounds with.                                       *)
Mode(h) == IF fpu[h].kind = "given" THEN fpu[h].asked ELSE roundingMode

(* The operation reads the mode; when it raises something,                  *)
(* softfloat_raiseFlags() reads the flags and, a step later, stores them.   *)
Operate(h) ==
  /\ fpu[h].pc = "operate"
  /\ \E flags \in SUBSET Flags :
       /\ fpu' = [fpu EXCEPT ![h] =
                    IF flags # {}
                    THEN [@ EXCEPT !.pc = "raise", !.used = Mode(h),
                                   !.raises = flags, !.seen = exceptionFlags]
                    ELSE IF Folds(h) THEN [@ EXCEPT !.pc = "fold", !.used = Mode(h)]
                    ELSE NoFp]
       /\ raised' = raised \cup flags
       /\ owed' = IF Folds(h) THEN [owed EXCEPT ![h] = @ \cup flags] ELSE owed
  /\ UNCHANGED << roundingMode, exceptionFlags, fflags, frm, intruded, written, together >>

RaiseFlags(h) ==
  /\ fpu[h].pc = "raise"
  /\ exceptionFlags' = fpu[h].seen \cup fpu[h].raises
  /\ fpu' = [fpu EXCEPT ![h] = IF Folds(h) THEN [@ EXCEPT !.pc = "fold", !.seen = {}]
                               ELSE NoFp]
  /\ UNCHANGED << roundingMode, fflags, frm, intruded, owed, written, raised, together >>

(* Mutant: the flags are assigned, not accrued.                             *)
FoldFlagsAssign(h) ==
  /\ fpu[h].pc = "fold"
  /\ fflags' = [fflags EXCEPT ![h] = fpu[h].raises]
  /\ fpu' = [fpu EXCEPT ![h] = NoFp]
  /\ intruded' = intruded \ {h}
  /\ UNCHANGED << roundingMode, exceptionFlags, frm, owed, written, raised, together >>

(* sfx.                                                                     *)
FoldFlags(h) ==
  /\ fpu[h].pc = "fold"
  /\ fflags' = [fflags EXCEPT ![h] = @ \cup exceptionFlags]
  /\ fpu' = [fpu EXCEPT ![h] = NoFp]
  /\ intruded' = intruded \ {h}
  /\ UNCHANGED << roundingMode, exceptionFlags, frm, owed, written, raised, together >>

(* set_csr() of fflags, and of frm; of fcsr it is both.                     *)
SetFflags(h) ==
  /\ Idle(h)
  /\ \E val \in FflagsValues :
       /\ fflags' = [fflags EXCEPT ![h] = val]
       /\ written' = [written EXCEPT ![h] = val]
  /\ owed' = [owed EXCEPT ![h] = {}]
  /\ UNCHANGED << roundingMode, exceptionFlags, frm, fpu, intruded, raised, together >>

SetFrm(h) ==
  /\ Idle(h)
  /\ \E val \in FrmValues : frm' = [frm EXCEPT ![h] = val]
  /\ UNCHANGED << roundingMode, exceptionFlags, fflags, fpu,
                  intruded, owed, written, raised, together >>

FpNext ==
  /\ \A h \in Hart : fpu[h].pc # "dead"
  /\ \E h \in Hart :
       \/ SetMode(h) \/ IllegalMode(h) \/ StartWithoutMode(h)
       \/ Operate(h) \/ RaiseFlags(h) \/ FoldFlags(h)
       \/ SetFflags(h) \/ SetFrm(h)

FpSpec == FpInit /\ [][FpNext]_fpVars

----------------------------------------------------------------------------
(* An operation whose instruction sets the mode has used that mode, or      *)
(* another hart set its own in between (arithmetic.h srm): harts that do    *)
(* not compute at the same time never round each other's results.  Of       *)
(* fcvt.d.l and fcvt.d.lu nothing is promised, and what is given its mode   *)
(* cannot miss it.                                                          *)
RoundsAsAsked ==
  \A h \in Hart :
    (fpu[h].kind = "rounded" /\ fpu[h].pc \in {"raise", "fold"}) =>
      \/ fpu[h].used = fpu[h].asked
      \/ h \in intruded

(* A flag in fflags was written there by its hart or raised by some         *)
(* instruction of some hart: none is invented.  And none is lost while      *)
(* harts compute one at a time: between instructions fflags holds what the  *)
(* hart wrote and what its own instructions raised since (arithmetic.h sfx, *)
(* softfloat_raiseFlags.c).  More may be in it: softfloat's flags are never *)
(* cleared, so what was raised before the write comes back.                 *)
FlagsAccrue ==
  /\ \A h \in Hart : fflags[h] \subseteq written[h] \cup raised
  /\ exceptionFlags \subseteq raised
  /\ ~together => /\ \A h \in Hart : Idle(h) => written[h] \cup owed[h] \subseteq fflags[h]
                  /\ (\A h \in Hart : Idle(h)) => exceptionFlags = raised
================================================================================
