---------------------------- MODULE FrameReconcile ----------------------------
(***************************************************************************)
(* The reconciliation rules of include/frameReconcile.h: which records of  *)
(* a thread's frame stack belong to frames that left without running their *)
(* exit hook.  Like the C++ templates, the operators only compute WHAT to  *)
(* pop; FrameStack applies it.                                             *)
(*                                                                         *)
(* `records' is the frame stack, bottom first; its first `count' elements  *)
(* are the ones in use (a C++ array and its length).  Positions count from *)
(* 1.  A record carries callee, caller, level, logged and name; a key      *)
(* (FrameKey) carries callee, caller and level.  Levels are integers;      *)
(* stacks grow downwards, so a deeper frame has a smaller level.           *)
(***************************************************************************)
EXTENDS Integers, Sequences, FiniteSetsExt

CONSTANTS
    Bounds,     \* StackBounds of the thread: [lo, hi, known]
    NoName      \* "no base name": a null or empty name_base / parent_base

ASSUME BoundsAssumption == Bounds \in [lo : Int, hi : Int, known : BOOLEAN]
-------------------------------------------------------------------------------
OnThreadStack(level) ==
    ~Bounds.known \/ (Bounds.lo <= level /\ level < Bounds.hi)

SameActivationSite(record, key) ==
    record.callee = key.callee /\ record.caller = key.caller

RecordHasBaseName(record, base) ==
    record.name # NoName /\ record.name = base

(***************************************************************************)
(* How many positions at the top of 1..count lie in the set `dead': what   *)
(* every downward scan of the code computes.  Position 0 never does.       *)
(***************************************************************************)
TopRun(count, dead) == Min({d \in 0..count : count - d \notin dead})

-------------------------------------------------------------------------------
DeadBelowLevelOnly(records, count, key) ==
    IF ~OnThreadStack(key.level)
    THEN 0
    ELSE TopRun(count, {i \in 1..count : /\ OnThreadStack(records[i].level)
                                         /\ records[i].level < key.level})
DeadUpToLevel(records, count, key) ==
    IF ~OnThreadStack(key.level)
    THEN 0
    ELSE TopRun(count, {i \in 1..count : /\ OnThreadStack(records[i].level)
                                         /\ records[i].level <= key.level})
DeadOnAnyStack(records, count, key) ==
    TopRun(count, {i \in 1..count : records[i].level < key.level})
DeadRecordsOnEnter(records, count, key) ==
    IF ~OnThreadStack(key.level)
    THEN 0
    ELSE TopRun(count,
           {i \in 1..count :
              /\ OnThreadStack(records[i].level)
              /\ \/ records[i].level < key.level
                 \/ /\ records[i].level = key.level
                    /\ records[i].caller # key.caller})

DeadRecordsOnCatch(records, count, catchLevel) ==
    IF ~OnThreadStack(catchLevel)
    THEN 0
    ELSE TopRun(count,
           {i \in 1..count : /\ OnThreadStack(records[i].level)
                             /\ records[i].level < catchLevel})

(***************************************************************************)
(* The records of the top group at `level' that sit above the topmost one  *)
(* named `base'; none when no record of the group has that name.           *)
(***************************************************************************)
DeadRecordsAboveMatch(records, count, level, base) ==
    LET others == TopRun(count,
                    {i \in 1..count : /\ records[i].level = level
                                      /\ ~RecordHasBaseName(records[i], base)})
        match  == count - others
    IN  IF match > 0 /\ records[match].level = level THEN others ELSE 0

TopRecord(records, count, key, tailCalled) == count
LowestOfRun(records, count, key, tailCalled) ==
    LET same == {i \in 1..count : SameActivationSite(records[i], key)}
    IN  IF same = {} THEN count
        ELSE Min({i \in same : i..Max(same) \subseteq same})

(***************************************************************************)
(* The position of the record an exit hook takes for its own: within the   *)
(* contiguous run of records of its activation site that starts at the     *)
(* topmost one, the record with its level, or for a tail-called hook, whose *)
(* key has the caller's level, the closest one below it.                    *)
(***************************************************************************)
ExitingRecordIndex(records, count, key, tailCalled) ==
    LET same  == {i \in 1..count : SameActivationSite(records[i], key)}
        first == Max(same)
        run   == {i \in same : i..first \subseteq same}
        exact == {i \in run : records[i].level = key.level}
        below == {i \in run : records[i].level < key.level}
        closest == {i \in below :
                      \A j \in below : records[j].level <= records[i].level}
    IN  IF \/ ~OnThreadStack(key.level)
           \/ ~OnThreadStack(records[count].level)
           \/ same = {}
        THEN count
        ELSE IF tailCalled
             THEN IF below = {} THEN first ELSE Max(closest)
             ELSE IF exact = {} THEN first ELSE Max(exact)
===============================================================================
