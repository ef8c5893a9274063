----------------------------- MODULE ShmSegment -----------------------------
(***************************************************************************)
(* The life of the POSIX shared-memory segment under one name: create,     *)
(* create_force and Drop of ShmRingWriter and open and Drop of             *)
(* ShmRingReader in src/shm.rs, one step per system call or header store.  *)
(* Processes crash at any step and are started again, ftruncate and mmap   *)
(* may fail, and an operator removes a stale segment as feed_handler tells *)
(* them to, when no producer runs.  What goes through the ring is in       *)
(* ShmFeed.                                                                *)
(***************************************************************************)
EXTENDS Integers, Sequences

CONSTANTS Producers, Readers, Capacities,
          AllowForce,   \* whether create_force is used, too
          MaxSegments   \* bound: segments created

ASSUME SegmentConstants ==
  /\ Capacities \subseteq Nat \ {0} /\ AllowForce \in BOOLEAN /\ MaxSegments \in Nat

VARIABLES
  name,     \* the segment the name denotes, or 0
  segs,     \* the segments created so far: their size, capacity field and ready flag
  pc, fd, cap, force,  \* producers: where they are, their segment and arguments
  opc, rfd, rcap,      \* readers: the same
  forced               \* history: create_force has been called

producerVars == <<pc, fd, cap, force>>
openerVars   == <<opc, rfd, rcap>>
segmentVars == <<name, segs, producerVars, openerVars, forced>>

Blank == [size |-> 0, capacity |-> 0, ready |-> FALSE, starts |-> 0]

SegmentInit ==
  /\ name = 0 /\ segs = <<>>
  /\ pc = [p \in Producers |-> "idle"] /\ fd = [p \in Producers |-> 0]
  /\ cap = [p \in Producers |-> 0] /\ force = [p \in Producers |-> FALSE]
  /\ opc = [r \in Readers |-> "idle"] /\ rfd = [r \in Readers |-> 0]
  /\ rcap = [r \in Readers |-> 0]
  /\ forced = FALSE

-----------------------------------------------------------------------------
(* create and create_force, entered with a capacity. *)
Create(p) ==
  /\ pc[p] = "idle"
  /\ \E c \in Capacities, f \in {FALSE, AllowForce} :
       /\ cap' = [cap EXCEPT ![p] = c] /\ force' = [force EXCEPT ![p] = f]
       /\ forced' = (forced \/ f)
  /\ pc' = [pc EXCEPT ![p] = "enter"]
  /\ UNCHANGED <<name, segs, fd, openerVars>>

Unlink(p) ==
  /\ pc[p] = "enter" /\ force[p]
  /\ name' = 0 /\ pc' = [pc EXCEPT ![p] = "open"]
  /\ UNCHANGED <<segs, fd, cap, force, openerVars, forced>>

(* shm_open: with O_EXCL it fails on a name in use, without it the segment *)
(* already there is opened.                                                *)
Opens(p) == IF force[p] THEN pc[p] = "open" ELSE pc[p] = "enter"

ShmCreates(p) ==
  /\ Opens(p) /\ name = 0 /\ Len(segs) < MaxSegments
  /\ segs' = Append(segs, Blank) /\ name' = Len(segs) + 1
  /\ fd' = [fd EXCEPT ![p] = Len(segs) + 1] /\ pc' = [pc EXCEPT ![p] = "truncate"]
  /\ UNCHANGED <<cap, force, openerVars, forced>>

TakesOver(p)   == TRUE      \* mutation: O_EXCL is left out
MayTakeOver(p) == force[p]

ShmOpensExisting(p) ==
  /\ Opens(p) /\ name # 0 /\ MayTakeOver(p)
  /\ fd' = [fd EXCEPT ![p] = name] /\ pc' = [pc EXCEPT ![p] = "truncate"]
  /\ UNCHANGED <<name, segs, cap, force, openerVars, forced>>

ShmExists(p) ==
  /\ Opens(p) /\ name # 0 /\ ~MayTakeOver(p)
  /\ pc' = [pc EXCEPT ![p] = "idle"]
  /\ UNCHANGED <<name, segs, fd, cap, force, openerVars, forced>>

Truncate(p) ==
  /\ pc[p] = "truncate"
  /\ segs' = [segs EXCEPT ![fd[p]].size = cap[p]] /\ pc' = [pc EXCEPT ![p] = "init"]
  /\ UNCHANGED <<name, fd, cap, force, openerVars, forced>>

(* ftruncate or mmap fails: the descriptor is closed, the name stays.      *)
CreateFails(p) ==
  /\ pc[p] \in {"truncate", "init"}
  /\ pc' = [pc EXCEPT ![p] = "idle"] /\ fd' = [fd EXCEPT ![p] = 0]
  /\ UNCHANGED <<name, segs, cap, force, openerVars, forced>>

(* The header: capacity and cursors, then ready. *)
InitHeader(p) ==
  /\ pc[p] = "init"
  /\ segs' = [segs EXCEPT ![fd[p]].capacity = cap[p], ![fd[p]].starts = @ + 1]
  /\ pc' = [pc EXCEPT ![p] = "ready"]
  /\ UNCHANGED <<name, fd, cap, force, openerVars, forced>>

SetReady(p) ==
  /\ pc[p] = "ready"
  /\ segs' = [segs EXCEPT ![fd[p]].ready = TRUE] /\ pc' = [pc EXCEPT ![p] = "live"]
  /\ UNCHANGED <<name, fd, cap, force, openerVars, forced>>

(* Drop: munmap, then shm_unlink of whatever has the name by then. *)
WriterUnmap(p) ==
  /\ pc[p] = "live"
  /\ pc' = [pc EXCEPT ![p] = "unmapped"] /\ fd' = [fd EXCEPT ![p] = 0]
  /\ UNCHANGED <<name, segs, cap, force, openerVars, forced>>

WriterUnlink(p) ==
  /\ pc[p] = "unmapped"
  /\ pc' = [pc EXCEPT ![p] = "idle"] /\ name' = 0
  /\ UNCHANGED <<segs, fd, cap, force, openerVars, forced>>

(* A producer dies without its Drop: the segment and the name stay. *)
ProducerCrash(p) ==
  /\ pc[p] # "idle"
  /\ pc' = [pc EXCEPT ![p] = "idle"] /\ fd' = [fd EXCEPT ![p] = 0]
  /\ UNCHANGED <<name, segs, cap, force, openerVars, forced>>

(* The operator's rm, certain that no producer is running. *)
RemoveAlways == name # 0 /\ name' = 0      \* mutation: not certain at all
                /\ UNCHANGED <<segs, producerVars, openerVars, forced>>
RemoveStale ==
  /\ name # 0 /\ \A p \in Producers : pc[p] = "idle"
  /\ name' = 0
  /\ UNCHANGED <<segs, producerVars, openerVars, forced>>

-----------------------------------------------------------------------------
(* ShmRingReader::open: shm_open and mmap, then the header is read. *)
ReaderOpen(r) ==
  /\ opc[r] = "idle" /\ name # 0
  /\ \E c \in Capacities : rcap' = [rcap EXCEPT ![r] = c]
  /\ rfd' = [rfd EXCEPT ![r] = name] /\ opc' = [opc EXCEPT ![r] = "spin"]
  /\ UNCHANGED <<name, segs, producerVars, forced>>

(* A page beyond the end of the segment: the process is killed. *)
ReaderFault(r) ==
  /\ opc[r] = "spin" /\ segs[rfd[r]].size = 0
  /\ opc' = [opc EXCEPT ![r] = "killed"]
  /\ UNCHANGED <<name, segs, producerVars, rfd, rcap, forced>>

ReaderReady(r) ==
  /\ opc[r] = "spin" /\ segs[rfd[r]].size > 0 /\ segs[rfd[r]].ready
  /\ opc' = [opc EXCEPT ![r] = "check"]
  /\ UNCHANGED <<name, segs, producerVars, rfd, rcap, forced>>

(* The deadline of five seconds. *)
ReaderTimeout(r) ==
  /\ opc[r] = "spin" /\ segs[rfd[r]].size > 0 /\ ~segs[rfd[r]].ready
  /\ opc' = [opc EXCEPT ![r] = "idle"] /\ rfd' = [rfd EXCEPT ![r] = 0]
  /\ UNCHANGED <<name, segs, producerVars, rcap, forced>>

Fits(r) == segs[rfd[r]].capacity = rcap[r]

ReaderAttach(r) ==
  /\ opc[r] = "check" /\ Fits(r)
  /\ opc' = [opc EXCEPT ![r] = "attached"]
  /\ UNCHANGED <<name, segs, producerVars, rfd, rcap, forced>>

ReaderMismatch(r) ==
  /\ opc[r] = "check" /\ ~Fits(r)
  /\ opc' = [opc EXCEPT ![r] = "idle"] /\ rfd' = [rfd EXCEPT ![r] = 0]
  /\ UNCHANGED <<name, segs, producerVars, rcap, forced>>

(* Drop, or the end of the process at any point. *)
ReaderEnds(r) ==
  /\ opc[r] # "idle"
  /\ opc' = [opc EXCEPT ![r] = "idle"] /\ rfd' = [rfd EXCEPT ![r] = 0]
  /\ UNCHANGED <<name, segs, producerVars, rcap, forced>>

CreateStep(p) ==
  Unlink(p) \/ ShmCreates(p) \/ ShmOpensExisting(p) \/ ShmExists(p)
    \/ Truncate(p) \/ InitHeader(p) \/ SetReady(p)
OpenStep(r) ==
  ReaderFault(r) \/ ReaderReady(r) \/ ReaderTimeout(r) \/ ReaderAttach(r) \/ ReaderMismatch(r)

SegmentNext ==
  \/ \E p \in Producers :
       Create(p) \/ CreateStep(p) \/ CreateFails(p)
         \/ WriterUnmap(p) \/ WriterUnlink(p) \/ ProducerCrash(p)
  \/ RemoveStale
  \/ \E r \in Readers : ReaderOpen(r) \/ OpenStep(r) \/ ReaderEnds(r)

SegmentSpec == SegmentInit /\ [][SegmentNext]_segmentVars

-----------------------------------------------------------------------------
Holding(p) == pc[p] \in {"truncate", "init", "ready", "live"}

Segment == [size : Capacities \cup {0}, capacity : Capacities \cup {0},
            ready : BOOLEAN, starts : Nat]

(* The type of every variable; a descriptor in use denotes a segment.      *)
SegmentTypeOK ==
  /\ segs \in Seq(Segment) /\ Len(segs) <= MaxSegments /\ name \in 0 .. Len(segs)
  /\ pc \in [Producers -> {"idle", "enter", "open", "truncate", "init", "ready", "live",
                           "unmapped"}]
  /\ fd \in [Producers -> 0 .. Len(segs)]
  /\ cap \in [Producers -> Capacities \cup {0}] /\ force \in [Producers -> BOOLEAN]
  /\ \A p \in Producers : (Holding(p) => fd[p] # 0) /\ (pc[p] # "idle" => cap[p] # 0)
  /\ opc \in [Readers -> {"idle", "spin", "check", "attached", "killed"}]
  /\ rfd \in [Readers -> 0 .. Len(segs)] /\ rcap \in [Readers -> Capacities \cup {0}]
  /\ \A r \in Readers : opc[r] # "idle" => rfd[r] # 0
  /\ forced \in BOOLEAN

Share(p, q) == p # q /\ Holding(p) /\ Holding(q) /\ fd[p] = fd[q]

(* "no second producer can create a segment with the same name while ours  *)
(* is alive, so the mapping is uniquely ours": two producers that both     *)
(* called create never hold one segment, whatever crashes, drops, removals *)
(* and forced creations there are meanwhile.                               *)
CreateExclusive == \A p, q \in Producers : Share(p, q) => force[p] \/ force[q]

(* While a producer is alive the name denotes its segment: no crash, Drop, *)
(* failed create or removal elsewhere takes the name away from it, and so  *)
(* there is at most one, as long as nobody calls create_force.             *)
NameIsOurs == ~forced => \A p \in Producers : Holding(p) => name = fd[p]

(* A reader is attached only to a segment that was sized and initialised   *)
(* once, for its own capacity, and never laid out again under it, as long  *)
(* as nobody calls create_force.                                           *)
AttachedFits ==
  ~forced => \A r \in Readers : opc[r] = "attached" =>
    /\ segs[rfd[r]].size = rcap[r] /\ segs[rfd[r]].capacity = rcap[r]
    /\ segs[rfd[r]].ready /\ segs[rfd[r]].starts = 1

(* Who may hold a segment, and what a reader may rely on once attached.    *)
SegmentInv == SegmentTypeOK /\ CreateExclusive /\ AttachedFits

(* open as documented returns Ok or an io::Error, also against a producer  *)
(* that is still creating the segment: it is never killed.                 *)
OpenNeverFaults == \A r \in Readers : opc[r] # "killed"
=============================================================================
