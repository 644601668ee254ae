--------------------------- MODULE LocationIndex ---------------------------
(***************************************************************************)
(* Ingesting positions and searching them: Store.ApplyLocation with        *)
(* applyLocationScript, Store.InitDriver, Store.SearchNearby and the       *)
(* Location Service that calls them (internal/redis, internal/location).   *)
(*                                                                         *)
(* All keys are per driver, so the module follows one driver and one       *)
(* search.  The cell sets h3:{cell}:drivers are seen from the driver: the  *)
(* set of cells that list it.  Of a position only its cell and whether it  *)
(* is within the radius of the search are kept.                            *)
(***************************************************************************)
EXTENDS Geospatial

CONSTANTS Points,          \* where the driver may be
          Pickup, Radius,  \* what the search asks for
          Workers,         \* UpdateLocation calls in progress
          MaxSeq,          \* bound: sequence numbers
          None

Position(p) == [cell |-> CellKey(p), near |-> Distance2(p, Pickup) <= Radius * Radius]

Positions == {Position(p) : p \in Points}
Cells == {p.cell : p \in Positions}
Fixes == [pos : Positions, seq : 0..MaxSeq]

\* The window is wide enough for the points and the search.
ASSUME SearchAssumption ==
    /\ Points \subseteq Int \X Int /\ Pickup \in Int \X Int /\ Radius \in Nat
    /\ \A p \in Points \cup {Pickup} : CellKey(p) \in Inside
ASSUME NoneAssumption == None \notin Grid /\ None \notin Positions /\ None \notin Fixes
ASSUME MaxSeqAssumption == MaxSeq \in Nat \ {0}

\* The cells the search scans; those where no driver is ever listed are left
\* out.
Plan == PlanSearch(Pickup, Radius) \cap Cells

VARIABLES loc,       \* driver:{id}:loc, None once its 120s TTL ran out
          guard,     \* seq:{id}, 0 when absent (1h TTL)
          inCells,   \* the cells whose set lists the driver
          status,    \* HGET driver:{id} state
          pc, fix, oldCell,     \* the ingest workers
          spc, todo, read, found,  \* the search
          steady     \* history: in range, AVAILABLE and untouched since the search began

storeVars == <<loc, guard, inCells, status>>
workVars == <<pc, fix, oldCell>>
searchVars == <<spc, todo, read, found>>
vars == <<storeVars, workVars, searchVars, steady>>

TypeOK ==
    /\ loc \in Fixes \cup {None}
    /\ guard \in 0..MaxSeq
    /\ inCells \subseteq Cells
    /\ status \in {"", "AVAILABLE", "BUSY"}
    /\ pc \in [Workers -> {"idle", "read", "eval"}]
    /\ fix \in [Workers -> Fixes \cup {None}]
    /\ oldCell \in [Workers -> Cells \cup {None}]
    /\ spc \in {"idle", "cells", "hmget", "state", "done", "panic"}
    /\ todo \subseteq Plan
    /\ read \in Positions \cup {None}
    /\ found \in BOOLEAN
    /\ steady \in BOOLEAN

Init ==
    /\ loc = None /\ guard = 0 /\ inCells = {} /\ status = ""
    /\ pc = [w \in Workers |-> "idle"]
    /\ fix = [w \in Workers |-> None]
    /\ oldCell = [w \in Workers |-> None]
    /\ spc = "idle" /\ todo = {} /\ read = None /\ found = FALSE
    /\ steady = FALSE

-----------------------------------------------------------------------------
(* Ingest.                                                                 *)

\* Location Service apply, up to ApplyLocation.  The sequence is the client's,
\* or the next value of a counter that all drivers share and that a restart
\* resets: any number, as far as one driver is concerned.
Apply(w, p, n) ==
    /\ pc[w] = "idle"
    /\ pc' = [pc EXCEPT ![w] = "read"]
    /\ fix' = [fix EXCEPT ![w] = [pos |-> p, seq |-> n]]
    /\ UNCHANGED <<storeVars, oldCell, searchVars, steady>>

\* ApplyLocation reads the old cell outside the script; a missing hash, or an
\* error, which it ignores, makes the new cell the old one.
ReadOldCell(w) ==
    /\ pc[w] = "read"
    /\ pc' = [pc EXCEPT ![w] = "eval"]
    /\ \/ /\ loc # None
          /\ oldCell' = [oldCell EXCEPT ![w] = loc.pos.cell]
       \/ oldCell' = [oldCell EXCEPT ![w] = fix[w].pos.cell]
    /\ UNCHANGED <<storeVars, fix, searchVars, steady>>

\* Defective variants of applyLocationScript: SREM after SADD and whatever the
\* cells; the guard lets an equal sequence pass; the position is written before
\* the guard is looked at; the guard is bumped once too often.
ApplySremLast(f, old) ==
    \/ guard >= f.seq /\ UNCHANGED <<loc, guard, inCells>>
    \/ /\ guard < f.seq /\ guard' = f.seq /\ loc' = f
       /\ inCells' = (inCells \cup {f.pos.cell}) \ {old}

ApplyEqualSeq(f, old) ==
    \/ guard > f.seq /\ UNCHANGED <<loc, guard, inCells>>
    \/ /\ guard <= f.seq /\ guard' = f.seq /\ loc' = f
       /\ inCells' = (inCells \ ({old} \ {f.pos.cell})) \cup {f.pos.cell}

ApplyLocFirst(f, old) ==
    /\ guard' = IF guard >= f.seq THEN guard ELSE f.seq
    /\ loc' = f
    /\ inCells' = (inCells \ ({old} \ {f.pos.cell})) \cup {f.pos.cell}

ApplyBumpTwice(f, old) ==
    \/ guard >= f.seq /\ UNCHANGED <<loc, guard, inCells>>
    \/ /\ guard < f.seq /\ guard' = f.seq + 1 /\ loc' = f
       /\ inCells' = (inCells \ ({old} \ {f.pos.cell})) \cup {f.pos.cell}

\* applyLocationScript.
ApplyLocationScript(f, old) ==
    \/ /\ guard >= f.seq
       /\ UNCHANGED <<loc, guard, inCells>>
    \/ /\ guard < f.seq
       /\ guard' = f.seq
       /\ loc' = f
       /\ inCells' = (inCells \ ({old} \ {f.pos.cell})) \cup {f.pos.cell}

Return(w) ==
    /\ pc' = [pc EXCEPT ![w] = "idle"]
    /\ fix' = [fix EXCEPT ![w] = None]
    /\ oldCell' = [oldCell EXCEPT ![w] = None]

EvalApply(w) ==
    /\ pc[w] = "eval"
    /\ ApplyLocationScript(fix[w], oldCell[w])
    /\ Return(w)
    /\ steady' = (steady /\ loc' = loc)
    /\ UNCHANGED <<status, searchVars>>

\* The call fails, or the process dies, before Redis executes it.
ApplyFails(w) ==
    /\ pc[w] # "idle"
    /\ Return(w)
    /\ UNCHANGED <<storeVars, searchVars, steady>>

\* InitDriver: a MULTI/EXEC that resets loc, joins the cell of the initial
\* position, and touches neither the guard nor any other cell set.
InitDriver(p, s) ==
    /\ loc' = [pos |-> p, seq |-> 0]
    /\ inCells' = inCells \cup {p.cell}
    /\ status' = s
    /\ steady' = FALSE
    /\ UNCHANGED <<guard, workVars, searchVars>>

LocExpires ==
    /\ loc # None
    /\ loc' = None
    /\ steady' = FALSE
    /\ UNCHANGED <<guard, inCells, status, workVars, searchVars>>

\* The hour of the guard starts with the 120s of the position it was applied
\* with, so the guard outlives that position; only InitDriver starts the 120s
\* again without it.
GuardExpires ==
    /\ guard # 0
    /\ loc # None => loc.seq = 0
    /\ guard' = 0
    /\ UNCHANGED <<loc, inCells, status, workVars, searchVars, steady>>

\* The Driver Service and the reservations write the state of the driver.
StatusChanges ==
    /\ status # ""
    /\ status' \in {"AVAILABLE", "BUSY"} \ {status}
    /\ steady' = FALSE
    /\ UNCHANGED <<loc, guard, inCells, workVars, searchVars>>

-----------------------------------------------------------------------------
(* SearchNearby, one Redis command a step.                                 *)

StartSearch ==
    /\ spc \in {"idle", "done"}
    /\ spc' = "cells" /\ todo' = Plan /\ read' = None /\ found' = FALSE
    /\ steady' = (loc # None /\ loc.pos.near /\ status = "AVAILABLE")
    /\ UNCHANGED <<storeVars, workVars>>

\* A defective variant: the search ends with the first cell.
SMembersFirstOnly(c) ==
    /\ spc = "cells" /\ c \in todo
    /\ todo' = {}
    /\ spc' = IF c \in inCells THEN "hmget" ELSE "done"
    /\ UNCHANGED <<storeVars, workVars, read, found, steady>>

\* SMEMBERS of the next cell.  Once the driver was seen, other cells that list
\* it add nothing.
SMembers(c) ==
    /\ spc = "cells" /\ c \in todo
    /\ IF c \in inCells THEN spc' = "hmget" /\ todo' = {}
       ELSE /\ todo' = todo \ {c}
            /\ spc' = IF todo' = {} THEN "done" ELSE "cells"
    /\ UNCHANGED <<storeVars, workVars, read, found, steady>>

\* HMGET lat lng cell: it always returns three values, nil for a missing hash.
HMGet ==
    /\ spc = "hmget"
    /\ read' = IF loc = None THEN None ELSE loc.pos
    /\ spc' = "state"
    /\ UNCHANGED <<storeVars, workVars, todo, found, steady>>

\* HGET state, then the type assertion m[0].(string) and the radius check.
HGetState ==
    /\ spc = "state"
    /\ spc' = IF status = "AVAILABLE" /\ read = None THEN "panic" ELSE "done"
    /\ found' = (status = "AVAILABLE" /\ read # None /\ read.near)
    /\ read' = None
    /\ UNCHANGED <<storeVars, workVars, todo, steady>>

\* The panic ends the process; it is started again.
Recover ==
    /\ spc = "panic"
    /\ spc' = "idle"
    /\ UNCHANGED <<storeVars, workVars, todo, read, found, steady>>

Next ==
    \/ \E w \in Workers : \/ \E p \in Positions, n \in 1..MaxSeq : Apply(w, p, n)
                          \/ ReadOldCell(w) \/ EvalApply(w) \/ ApplyFails(w)
    \/ \E p \in Positions, s \in {"AVAILABLE", "BUSY"} : InitDriver(p, s)
    \/ LocExpires \/ GuardExpires \/ StatusChanges
    \/ StartSearch \/ (\E c \in Cells : SMembers(c)) \/ HMGet \/ HGetState \/ Recover

Spec == Init /\ [][Next]_vars

-----------------------------------------------------------------------------
(* Properties.                                                             *)

\* A driver with a position is always listed by the cell of that position,
\* whatever stale old cells concurrent updates remove.
CurrentCellIndexed == loc # None => loc.pos.cell \in inCells

\* The stored position is the newest one accepted: its sequence is the guard's,
\* unless registering the driver reset it.
PositionIsNewest == loc # None /\ loc.seq > 0 => guard = loc.seq

\* A position that is still alive is replaced only by one with a higher
\* sequence, or by registering the driver again: it never goes back, although
\* updates overtake each other and the guard is a key with a TTL of its own.
PositionsInOrder ==
    [][loc # None /\ loc' \notin {None, loc} => loc'.seq = 0 \/ loc'.seq > loc.seq]_vars

\* A driver that was in range, AVAILABLE and did not move while a search ran is
\* in its result: the cells are read one by one, but none can lose it.
SteadyDriverFound == spc = "done" /\ steady => found

\* A driver without a position is skipped (store.go, "no position yet").
NoPositionIsSkipped == spc # "panic"
=============================================================================
