------------------------------ MODULE Segment -------------------------------
(***************************************************************************)
(* How up to three receiver processes, started together, end up on one     *)
(* shared segment: the first creates it with O_EXCL, the others attach     *)
(* (src/src/receiver/main.cpp, open_or_create_shm; shm_manager.cpp,        *)
(* create, open, init_header, map_and_validate, offsets_valid, close).     *)
(*                                                                         *)
(* The segment has a name, a size and the header fields that open() looks  *)
(* at, with the values module SegmentLayout gives them; what open() does   *)
(* not look at is the free list, which init_header() writes last.  A       *)
(* process that attached uses the arena at once.                           *)
(***************************************************************************)
EXTENDS SegmentLayout, FiniteSets

CONSTANTS Procs,       \* receiver processes
          CallsFail,   \* may shm_open(), fstat(), ftruncate() and mmap() fail?
          MaxAttempts, \* attempts of open_or_create_shm() before it gives up
          MaxCrashes   \* bound: how many process deaths a behaviour has

ASSUME SegmentAssumption == /\ CallsFail \in BOOLEAN
                            /\ MaxAttempts \in Nat \ {0}
                            /\ MaxCrashes \in Nat

VARIABLES exists,    \* does the name exist?
          size,      \* its size in bytes
          written,   \* the parts of the header that have been written
          crashes,
          pc,        \* where each process is
          attempts,  \* attempt of open_or_create_shm()
          mapped,    \* mapped[p]: the size p mapped; 0 is not mapped
          creators   \* ghost: processes whose shm_open(O_EXCL) succeeded

vars == <<exists, size, written, crashes, pc, attempts, mapped, creators>>

\* The order in which init_header() writes, with what a reader needs of each: magic,
\* version and the slots' size and number, the offsets, total_size, the free list with
\* its head.
Parts == {"magic", "offsets", "total", "list"}
Before(part) == CASE part = "magic" -> {}
                  [] part = "offsets" -> {"magic"}
                  [] part = "total" -> {"magic", "offsets"}
                  [] part = "list" -> {"magic", "offsets", "total"}

Init ==
  /\ exists = FALSE
  /\ size = 0
  /\ written = {}
  /\ crashes = 0
  /\ pc = [p \in Procs |-> "open"]
  /\ attempts = [p \in Procs |-> 1]
  /\ mapped = [p \in Procs |-> 0]
  /\ creators = {}

Goto(p, l) == pc' = [pc EXCEPT ![p] = l]

-----------------------------------------------------------------------------
(* open() *)

\* No segment, or one that has no size yet, or a call that fails: open() fails.
OpenFails(p) ==
  /\ pc[p] = "open"
  /\ ~exists \/ size = 0 \/ CallsFail
  /\ Goto(p, "create")
  /\ UNCHANGED <<exists, size, written, crashes, attempts, mapped, creators>>

OpenMaps(p) ==
  /\ pc[p] = "open"
  /\ exists
  /\ size > 0
  /\ mapped' = [mapped EXCEPT ![p] = size]
  /\ Goto(p, "validate")
  /\ UNCHANGED <<exists, size, written, crashes, attempts, creators>>

\* A field of the header is zero until its part is written.
Stored(part, value) == IF part \in written THEN value ELSE 0

Header ==
  [slot_size |-> Stored("magic", init_header.slot_size),
   slot_count |-> Stored("magic", init_header.slot_count),
   session_table_offset |-> Stored("offsets", init_header.session_table_offset),
   block_table_region_offset |-> Stored("offsets", init_header.block_table_region_offset),
   arena_offset |-> Stored("offsets", init_header.arena_offset),
   total_size |-> Stored("total", init_header.total_size)]

\* map_and_validate() of a mapping of so many bytes.
HeaderValid(bytes) ==
  /\ "magic" \in written
  /\ Header.total_size <= bytes
  /\ offsets_valid(Header)

Validate(p) ==
  /\ pc[p] = "validate"
  /\ IF HeaderValid(mapped[p])
     THEN Goto(p, "attached") /\ UNCHANGED mapped
     ELSE Goto(p, "create") /\ mapped' = [mapped EXCEPT ![p] = 0]
  /\ UNCHANGED <<exists, size, written, crashes, attempts, creators>>

-----------------------------------------------------------------------------
(* create() *)

\* Seeded faults, here and below: the definition that follows with one bug that
\* a change of the code could bring in.  A run of its own shows it is noticed.
CreateLoses_Truncates(p) ==
  /\ pc[p] = "create"
  /\ exists
  /\ size' = 0
  /\ Goto(p, "retry")
  /\ UNCHANGED <<exists, written, crashes, attempts, mapped, creators>>

CreateLoses_TriesCreateAgain(p) ==
  /\ pc[p] = "create"
  /\ exists
  /\ UNCHANGED vars

\* The name is taken, or shm_open() fails for another reason.
CreateLoses(p) ==
  /\ pc[p] = "create"
  /\ exists \/ CallsFail
  /\ Goto(p, "retry")
  /\ UNCHANGED <<exists, size, written, crashes, attempts, mapped, creators>>

CreateWins_NotExclusive(p) ==
  /\ pc[p] = "create"
  /\ exists' = TRUE
  /\ creators' = creators \cup {p}
  /\ Goto(p, "truncate")
  /\ UNCHANGED <<size, written, crashes, attempts, mapped>>

CreateWins(p) ==
  /\ pc[p] = "create"
  /\ ~exists
  /\ exists' = TRUE
  /\ creators' = creators \cup {p}
  /\ Goto(p, "truncate")
  /\ UNCHANGED <<size, written, crashes, attempts, mapped>>

\* ftruncate() or mmap() fails: the name stays.
CreateFailure(p) ==
  /\ CallsFail
  /\ pc[p] \in {"truncate", "map"}
  /\ Goto(p, "retry")
  /\ UNCHANGED <<exists, size, written, crashes, attempts, mapped, creators>>

Truncate(p) ==
  /\ pc[p] = "truncate"
  /\ size' = compute_total_size
  /\ Goto(p, "map")
  /\ UNCHANGED <<exists, written, crashes, attempts, mapped, creators>>

Map(p) ==
  /\ pc[p] = "map"
  /\ mapped' = [mapped EXCEPT ![p] = size]
  /\ Goto(p, "zero")
  /\ UNCHANGED <<exists, size, written, crashes, attempts, creators>>

Zero(p) ==
  /\ pc[p] = "zero"
  /\ written' = {}
  /\ Goto(p, "init")
  /\ UNCHANGED <<exists, size, crashes, attempts, mapped, creators>>

InitHeader(p) ==
  /\ pc[p] = "init"
  /\ \E part \in Parts \ written :
       /\ Before(part) \subseteq written
       /\ written' = written \cup {part}
  /\ UNCHANGED <<exists, size, crashes, pc, attempts, mapped, creators>>

\* create() validates its own header.
Created(p) ==
  /\ pc[p] = "init"
  /\ written = Parts
  /\ IF HeaderValid(mapped[p])
     THEN Goto(p, "attached") /\ UNCHANGED mapped
     ELSE Goto(p, "retry") /\ mapped' = [mapped EXCEPT ![p] = 0]
  /\ UNCHANGED <<exists, size, written, crashes, attempts, creators>>

-----------------------------------------------------------------------------
Retry_OneTooMany(p) ==
  /\ pc[p] = "retry"
  /\ IF attempts[p] <= MaxAttempts
     THEN attempts' = [attempts EXCEPT ![p] = @ + 1] /\ Goto(p, "open")
     ELSE attempts' = [attempts EXCEPT ![p] = 1] /\ Goto(p, "exit")
  /\ UNCHANGED <<exists, size, written, crashes, mapped, creators>>

\* 20 ms later: another attempt, or the process ends and the supervisor starts
\* it again.
Retry(p) ==
  /\ pc[p] = "retry"
  /\ IF attempts[p] < MaxAttempts
     THEN attempts' = [attempts EXCEPT ![p] = @ + 1] /\ Goto(p, "open")
     ELSE attempts' = [attempts EXCEPT ![p] = 1] /\ Goto(p, "exit")
  /\ UNCHANGED <<exists, size, written, crashes, mapped, creators>>

Restart(p) ==
  /\ pc[p] = "exit"
  /\ Goto(p, "open")
  /\ UNCHANGED <<exists, size, written, crashes, attempts, mapped, creators>>

\* A process dies anywhere; the segment outlives it.
Crash(p) ==
  /\ crashes < MaxCrashes
  /\ pc[p] # "exit"
  /\ crashes' = crashes + 1
  /\ mapped' = [mapped EXCEPT ![p] = 0]
  /\ attempts' = [attempts EXCEPT ![p] = 1]
  /\ Goto(p, "exit")
  /\ UNCHANGED <<exists, size, written, creators>>

Attach(p) == OpenFails(p) \/ OpenMaps(p) \/ Validate(p)
Create(p) == \/ CreateLoses(p) \/ CreateWins(p) \/ CreateFailure(p) \/ Truncate(p)
             \/ Map(p) \/ Zero(p) \/ InitHeader(p) \/ Created(p)
Step(p) == Attach(p) \/ Create(p) \/ Retry(p) \/ Restart(p)

\* Attached processes go on to other work.
AllAttached == (\A p \in Procs : pc[p] = "attached") /\ UNCHANGED vars

Next == (\E p \in Procs : Step(p) \/ Crash(p)) \/ AllAttached

Spec == Init /\ [][Next]_vars

\* A process that runs goes on, and the supervisor starts again what ended.  A call
\* that may fail does not fail at every one of infinitely many attempts.
FairSpec == Spec /\ \A p \in Procs : /\ WF_vars(Step(p))
                                    /\ SF_vars(OpenMaps(p))
                                    /\ SF_vars(CreateWins(p))

-----------------------------------------------------------------------------
(* Properties *)

Creating == {"truncate", "map", "zero", "init"}

TypeOK ==
  /\ exists \in BOOLEAN
  /\ size \in {0, compute_total_size}
  /\ written \in SUBSET Parts
  /\ crashes \in 0 .. MaxCrashes
  /\ pc \in [Procs -> Creating \cup {"open", "validate", "create", "retry", "exit",
                                     "attached"}]
  /\ attempts \in [Procs -> 1 .. MaxAttempts]
  /\ mapped \in [Procs -> {0, compute_total_size}]
  /\ creators \in SUBSET Procs

\* However many processes start, restart and die, one of them at most ever
\* initialises the segment: nobody zeroes what another is using.
OneCreator ==
  /\ Cardinality(creators) <= 1
  /\ \A p \in Procs : pc[p] \in Creating => creators = {p}
  /\ \A p, q \in Procs : pc[p] \in {"truncate", "map", "zero"} => pc[q] # "attached"

\* What a process has mapped is there: the segment is never truncated below it, as
\* the comment in create() demands (shm_manager.cpp, 210-219).  The header says that
\* create() truncates an existing one (shm_manager.hpp, 479): the code never does.
MappedIsBacked == \A p \in Procs : mapped[p] <= size

\* An attached process uses the offsets it finds in the header, total_size the creator
\* computed before there was one: every session's every block entry and every slot lies
\* in what it has mapped, on an 8-byte boundary, and overlaps nothing.
RegionsFit ==
  \A p \in Procs : pc[p] = "attached" => Separate(Header, mapped[p]) /\ Aligned(Header)

\* A segment whose creator failed or died before the header was valid: the name is
\* taken, open() refuses it, and nothing in the code removes it.
DeadSegment == exists /\ ~HeaderValid(size) /\ \A p \in Procs : pc[p] \notin Creating

\* Every process, those that were started again included, ends up on the
\* segment and stays there; a dead segment is the only thing that can stop it.
EventuallyAttached == \A p \in Procs : <>[](pc[p] = "attached" \/ DeadSegment)

\* The comment on open_or_create_shm(): open() rejects a segment that is still
\* being created.
AttachedIsComplete == \A p \in Procs : pc[p] = "attached" => written = Parts
=============================================================================
