---------------------------- MODULE Conversions ----------------------------
(***************************************************************************)
(* Conversions of single values as behaviours: coerceValue is given a      *)
(* value, the type it has, the type it shall have and the policies.  What  *)
(* the result must be, for integers and floats of any widths.              *)
(***************************************************************************)
EXTENDS Coercion

CONSTANT Tasks  \* the tasks of a run, records whose field "do" says what

VARIABLES
    task,
    stage,      \* how far it is
    output      \* the result

Machine == {"int64", "int32", "uint64", "uint32", "float64", "float32"}
Halves(v) == IF v.go \in {"float64", "float32"} THEN v.n ELSE 2 * v.n

(* A value has a Go type of its schema type, and a number this one holds.  *)
ASSUME TasksAssumption ==
    \A t \in Tasks : t.do = "coerce" =>
        /\ t.val = Value(t.val.go, t.val.n)
        /\ t.val.go \in GoOf(t.from)
        /\ t.val.n \in GoRange(t.val.go)

(* One step of a task that is at stage s. *)
At(do, s, next) == /\ task.do = do /\ stage = s
                   /\ stage' = next
                   /\ UNCHANGED task

Convert ==
    /\ At("coerce", "start", "done")
    /\ output' \in CoerceValue(task.val, task.from, task.to, task.lossiness, task.bytes)

(* The behaviours of a conversion, which has no result before its end. *)
ConversionInit == task \in Tasks /\ task.do = "coerce" /\ stage = "start"

ConversionSpec == ConversionInit /\ [][Convert]_<<task, stage, output>>

----------------------------------------------------------------------------
(* A conversion that succeeds gives a value of the type that was asked for *)
(* (coerceValue): every helper cuts an integer to its range, rounds to a   *)
(* float the type has, and has the Go type of the target.  A number that   *)
(* becomes a Boolean keeps its own type unless it is an int64 (ToBoolean), *)
(* and so does a value that becomes one of no scalar type.                 *)
ConversionTyped ==
    (task.do = "coerce" /\ stage = "done" /\ output.ok) =>
        /\ output.val \in Values
        /\ task.to \in ScalarTypes \ {"Boolean"} => output.val.go \in GoOf(task.to)

(* Where the code's comparison with the largest integer is too coarse: the *)
(* limit is rounded up to the power of two when it becomes a float.        *)
AtTheLimit == \/ /\ task.val.go \in {"float64", "float32"}
                 /\ task.val.n \in {2 * Pow2[W64 - 1], 2 * Pow2[W64]}
              \/ /\ task.to \in IsFloat
                 /\ task.val.go = "int64" /\ Round(2 * task.val.n, M64) = 2 * Pow2[W64 - 1]
              \/ /\ task.to \in IsFloat
                 /\ task.val.go = "uint64" /\ Round(2 * task.val.n, M64) = 2 * Pow2[W64]

(* A conversion of a number that changes it is refused under the strict    *)
(* policy, and reported as lossy under the others (coerceValue, with every *)
(* narrowing, change of sign and rounding on the way).  Excepted are the   *)
(* powers of two at the limit, and that rounding a uint64 to float64 is    *)
(* reported as a safe coercion.                                            *)
LossIsReported ==
    (/\ task.do = "coerce" /\ stage = "done" /\ output.ok
     /\ {task.val.go, output.val.go} \subseteq Machine
     /\ Halves(task.val) # Halves(output.val)
     /\ ~AtTheLimit) =>
        /\ task.lossiness # "strict"
        /\ \/ MergeKind(output.kind, output.note) >= Lossy
           \/ task.val.go = "uint64" /\ task.to = "Float64"

(* What the table of compat.go calls lossless, the conversion does: under  *)
(* the strict policy it accepts every value of the source type and keeps   *)
(* the number, or the text.                                                *)
LosslessEntriesHold ==
    (/\ task.do = "coerce" /\ stage = "done" /\ task.lossiness = "strict"
     /\ task.from # "Null" /\ LookupCompat(task.from, task.to).lossless) =>
        /\ output.ok
        /\ IF {task.val.go, output.val.go} \subseteq Machine
           THEN Halves(task.val) = Halves(output.val)
           ELSE task.val.n = output.val.n
============================================================================
