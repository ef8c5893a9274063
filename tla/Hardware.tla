------------------------------ MODULE Hardware ------------------------------
(***************************************************************************)
(* HardwareProfile of src/hw.rs: the L3 size read from sysfs, the share of *)
(* it a program may use, and the ring capacity and cores that follow for a *)
(* number of symbols.  Fractions are rationals <<n, d>> or NaN; the code   *)
(* rounds a product of floats down or up, which only differs from rational *)
(* arithmetic by the last bit.                                             *)
(***************************************************************************)
EXTENDS Integers, FiniteSetsExt

CONSTANTS SizeFiles,   \* contents of a cache index's size file: [num, unit]
          CoreCounts,  \* what num_cpus::get_physical may return
          Fractions,   \* what callers pass to with_fraction
          SymbolCounts \* what callers pass to ring_capacity_for

NaN == <<0, 0>>

ASSUME HardwareConstants ==
  /\ SizeFiles \subseteq [num : Nat, unit : {"K", "M", "none", "bad"}]
  /\ CoreCounts \subseteq Nat /\ SymbolCounts \subseteq Nat
  /\ \A f \in Fractions : f = NaN \/ f \in Int \X (Nat \ {0})

CandleBytes == 48
MinRing     == 256
MaxRing     == 1000000
DefaultL3   == 8 * 1024 * 1024

VARIABLES hpc,     \* "detect", "profile", or "sized"
          profile, \* l3_cache_bytes, physical_cores, resource_fraction
          symbols, \* the argument of ring_capacity_for
          ring     \* what it returned

hwVars == <<hpc, profile, symbols, ring>>

NoProfile == [l3 |-> 0, cores |-> 1, fraction |-> <<1, 3>>]

HwInit == hpc = "detect" /\ profile = NoProfile /\ symbols = 0 /\ ring = 0

-----------------------------------------------------------------------------
(* parse_cache_size: a number with K, M or nothing; "bad" does not parse.  *)
Factor(unit)   == CASE unit = "K" -> 1024 [] unit = "M" -> 1024 * 1024 [] unit = "none" -> 1
ParseSize(f)   == f.num * Factor(f.unit)

(* detect_l3_cache: the first index of level 3 whose size parses.  An      *)
(* index is unreadable (level 0) or has a level and a size file.           *)
DetectL3(index) ==
  LET good == {i \in DOMAIN index : index[i].level = 3 /\ index[i].size.unit # "bad"}
  IN  IF good = {} THEN DefaultL3 ELSE ParseSize(index[Min(good)].size)

(* detect, or dedicated, which takes all of the machine. *)
Detect(index, cores, dedicated) ==
  /\ hpc = "detect"
  /\ profile' = [l3 |-> DetectL3(index), cores |-> cores,
                 fraction |-> IF dedicated THEN <<1, 1>> ELSE <<1, 3>>]
  /\ hpc' = "profile"
  /\ UNCHANGED <<symbols, ring>>

(* f64::clamp(0.05, 1.0), which passes NaN. *)
Less(p, q) == p[1] * q[2] < q[1] * p[2]
ClampFraction(f) ==
  IF f = NaN THEN NaN
  ELSE IF Less(f, <<1, 20>>) THEN <<1, 20>> ELSE IF Less(<<1, 1>>, f) THEN <<1, 1>> ELSE f

WithFraction(f) ==
  /\ hpc = "profile"
  /\ profile' = [profile EXCEPT !.fraction = ClampFraction(f)]
  /\ UNCHANGED <<hpc, symbols, ring>>

(* x times the fraction, rounded down by the cast to usize (NaN casts to 0) *)
(* or up by ceil.                                                          *)
Floor(x, f)   == IF f = NaN THEN 0 ELSE (x * f[1]) \div f[2]
Ceil(x, f)    == IF f = NaN THEN 0 ELSE (x * f[1] + f[2] - 1) \div f[2]
UsableL3      == Floor(profile.l3, profile.fraction)
UsableCores   == Max({Ceil(profile.cores, profile.fraction), 1})

CapacityWhole(n) == Max({MinRing, Min({MaxRing, UsableL3 \div CandleBytes})})    \* mutation
RingCapacityFor(n) ==
  Max({MinRing, Min({MaxRing, (UsableL3 \div Max({n, 1})) \div CandleBytes})})

(* from_hardware, or a caller sizing its own store. *)
Size(n) ==
  /\ hpc = "profile"
  /\ symbols' = n /\ ring' = RingCapacityFor(n)
  /\ hpc' = "sized"
  /\ UNCHANGED profile

-----------------------------------------------------------------------------
Index == {[level |-> l, size |-> s] : l \in {0, 2, 3}, s \in SizeFiles}

HwNext ==
  \/ \E index \in [0 .. 1 -> Index], cores \in CoreCounts, d \in BOOLEAN : Detect(index, cores, d)
  \/ \E f \in Fractions : WithFraction(f)
  \/ \E n \in SymbolCounts : Size(n)

HwSpec == HwInit /\ [][HwNext]_hwVars

-----------------------------------------------------------------------------
(* The rings of all symbols together fit the share of L3 the program may   *)
(* use, unless each is at its minimum; more symbols never get larger       *)
(* rings; a program always gets a core and never more than there are.      *)
SizedRight ==
  /\ UsableL3 <= profile.l3 /\ UsableCores \in 1 .. Max({profile.cores, 1})
  /\ hpc = "sized" =>
       /\ ring \in MinRing .. MaxRing
       /\ ring > MinRing => symbols * ring * CandleBytes <= UsableL3
       /\ \A n \in SymbolCounts : n > symbols => RingCapacityFor(n) <= ring
=============================================================================
