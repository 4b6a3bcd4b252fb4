--------------------------- MODULE SmcGuard_proofs ---------------------------
(***************************************************************************)
(* Proofs about SmcGuard, for every memory layout, every module (sequence  *)
(* of chunk ranges) and every set of requests that satisfy its             *)
(* assumptions.                                                            *)
(***************************************************************************)
EXTENDS SmcGuard, TLAPS, FiniteSetTheorems

-----------------------------------------------------------------------------
(* Arithmetic of pages and lines.                                          *)

\* Division with remainder.
LEMMA DivFacts ==
    ASSUME NEW a \in Nat, NEW p \in Nat \ {0}
    PROVE  /\ a \div p \in Int
           /\ a % p \in Int /\ 0 <= a % p /\ a % p < p
           /\ a = p * (a \div p) + (a % p)
  BY SMT

\* Different multiples of p lie at least p apart.
LEMMA NextMultiple ==
    ASSUME NEW x \in Int, NEW y \in Int, NEW p \in Nat \ {0}, x < y
    PROVE  p * x + p <= p * y
  <1>1. x + 1 <= y
    OBVIOUS
  <1>2. p * (x + 1) <= p * y
    BY <1>1, SMT
  <1> QED
    BY <1>2, SMT

\* Whatever lies in the aligned block of a has the same aligned block.
LEMMA SameBlock ==
    ASSUME NEW a \in Nat, NEW b \in Nat, NEW p \in Nat \ {0},
           a - (a % p) <= b, b < a - (a % p) + p
    PROVE  b - (b % p) = a - (a % p)
  <1> DEFINE x == a \div p
             y == b \div p
             u == a % p
             v == b % p
  <1>1. /\ x \in Int /\ u \in Int /\ a = p * x + u
        /\ y \in Int /\ v \in Int /\ 0 <= v /\ v < p /\ b = p * y + v
    BY DivFacts
  <1>2. p * x \in Int /\ p * y \in Int
    BY <1>1
  <1>3. p * x <= b /\ b < p * x + p
    BY <1>1, <1>2
  <1>4. x < y => p * x + p <= p * y
    BY <1>1, NextMultiple
  <1>5. y < x => p * y + p <= p * x
    BY <1>1, NextMultiple
  <1> HIDE DEF x, y, u, v
  <1>6. x = y
    BY <1>1, <1>2, <1>3, <1>4, <1>5, SMT
  <1> QED
    BY <1>1, <1>2, <1>6 DEF u, v

\* Where the page of an address lies.
LEMMA PageFacts ==
    ASSUME NEW a \in Addr
    PROVE  /\ PageStart(a) \in Int /\ 0 <= PageStart(a) /\ PageStart(a) <= a
           /\ a < PageStart(a) + PageWords /\ PageStart(a) + PageWords <= AddrSpace
  <1>1. a \in Nat /\ PageWords \in Nat \ {0}
    BY MemoryAssumption DEF Addr
  <1>2. PageStart(a) + PageWords <= AddrSpace
    BY TranslationAssumption
  <1>3. /\ a % PageWords \in Int /\ 0 <= a % PageWords /\ a % PageWords < PageWords
        /\ a \div PageWords \in Int
        /\ a = PageWords * (a \div PageWords) + (a % PageWords)
    BY <1>1, DivFacts
  <1>4. a % PageWords <= a
    BY <1>1, SMT
  <1> QED
    BY <1>1, <1>2, <1>3, <1>4 DEF PageStart

\* Where the cache line of an address lies.
LEMMA LineFacts ==
    ASSUME NEW a \in Addr
    PROVE  /\ LineStart(a) \in Addr /\ LineStart(a) <= a
           /\ LineStart(a) + LineWords <= AddrSpace
  <1>1. a \in Nat /\ LineWords \in Nat \ {0} /\ AddrSpace \in Nat
    BY MemoryAssumption DEF Addr
  <1>2. LineStart(a) + LineWords <= AddrSpace
    BY TranslationAssumption
  <1>3. a % LineWords \in Int /\ 0 <= a % LineWords
    BY <1>1, DivFacts
  <1>4. a % LineWords <= a
    BY <1>1, SMT
  <1> QED
    BY <1>1, <1>2, <1>3, <1>4 DEF LineStart, Addr

-----------------------------------------------------------------------------
(* Chunks.                                                                 *)

\* The chunk ranges are non-empty intervals of addresses, in order.
LEMMA ChunkFacts ==
    /\ Len(ChunkRanges) \in Nat
    /\ \A c \in Chunks : c \in Nat /\ 1 <= c /\ c <= Len(ChunkRanges)
    /\ \A c \in Chunks : Start(c) \in Addr /\ End(c) \in Addr /\ Start(c) < End(c)
    /\ \A c, d \in Chunks : c < d => End(c) <= Start(d)
  <1>1. Len(ChunkRanges) \in Nat
    BY ChunkRangesAssumption
  <1>2. \A c \in Chunks : c \in Nat /\ 1 <= c /\ c <= Len(ChunkRanges)
    BY <1>1 DEF Chunks
  <1>3. \A c \in Chunks : ChunkRanges[c] \in [start : Addr, end : Addr]
    <2> DEFINE R == [start : Addr, end : Addr]
    <2>1. ChunkRanges \in Seq(R)
      BY ChunkRangesAssumption
    <2> HIDE DEF R
    <2>2. \A c \in Chunks : ChunkRanges[c] \in R
      BY <2>1 DEF Chunks
    <2> QED
      BY <2>2 DEF R
  <1>4. \A c \in Chunks : Start(c) \in Addr /\ End(c) \in Addr
    BY <1>3 DEF Start, End
  <1> QED
    BY <1>1, <1>2, <1>4, ChunkRangesAssumption

\* The lookup table is written at most once per index.
LEMMA EntriesUnique ==
    ASSUME NEW k \in Int, NEW c \in Entries(k), NEW d \in Entries(k)
    PROVE  c = d
  <1>1. c \in Chunks /\ d \in Chunks
    BY DEF Entries
  <1>2. ASSUME NEW x \in Entries(k), NEW y \in Entries(k), x < y
        PROVE  FALSE
    <2>1. x \in Chunks /\ y \in Chunks
      BY DEF Entries
    <2>2. /\ End(x) \in Int /\ Start(y) \in Int /\ End(x) <= Start(y)
      BY <1>2, <2>1, ChunkFacts DEF Addr
    <2>3. /\ k < GetAddressLookupIndex(End(x))
          /\ 0 <= GetAddressLookupIndex(Start(y))
          /\ GetAddressLookupIndex(Start(y)) <= k
      BY DEF Entries
    <2>4. ASSUME NEW a \in Int, GetAddressLookupIndex(a) >= 0
          PROVE  \/ /\ a >= RamBase /\ a < RamBase + RamSize
                    /\ GetAddressLookupIndex(a) = a - RamBase
                 \/ /\ a >= ExBase /\ a < ExBase + ExSize
                    /\ GetAddressLookupIndex(a) = RamSize + (a - ExBase)
      BY <2>4, MemoryAssumption DEF GetAddressLookupIndex, RamWords
    <2>5. ASSUME NEW a \in Int PROVE GetAddressLookupIndex(a) \in Int
      BY MemoryAssumption DEF GetAddressLookupIndex, RamWords
    <2> QED
      BY <2>2, <2>3, <2>4, <2>5, MemoryAssumption
  <1>3. c \in Nat /\ d \in Nat
    BY <1>1, ChunkFacts
  <1> QED
    BY <1>2, <1>3

\* ChunkIndexOf answers with a chunk, and only while the guard is active.
LEMMA ChunkIndexOfType ==
    ASSUME NEW a \in Addr, ChunkIndexOf(a) # NoChunk
    PROVE  ChunkIndexOf(a) \in Chunks /\ active
  <1> DEFINE k == GetAddressLookupIndex(a)
  <1>1. k \in Int
    BY MemoryAssumption DEF GetAddressLookupIndex, RamWords, Addr
  <1>2. active /\ k >= 0 /\ Entries(k) # {}
    BY DEF ChunkIndexOf
  <1>3. PICK c \in Entries(k) : TRUE
    BY <1>2
  <1>4. \A d \in Entries(k) : d = c
    BY <1>1, EntriesUnique
  <1>5. c \in Chunks /\ c \in Nat
    BY ChunkFacts DEF Entries
  <1>6. \A d \in Entries(k) : d <= c
    BY <1>4, <1>5
  <1>7. ChunkIndexOf(a) = CHOOSE x \in Entries(k) : \A d \in Entries(k) : d <= x
    BY DEF ChunkIndexOf
  <1> QED
    BY <1>2, <1>3, <1>5, <1>6, <1>7 DEF Entries

\* What InitLookupTable takes for granted of the memory map and of the module: MEM2
\* does not begin where MEM1 ends, and no chunk straddles a boundary of MEM1.
LayoutFits ==
    /\ RamBase + RamSize < ExBase
    /\ \A c \in Chunks : Words(c) \cap RamWords # {} => Words(c) \subseteq RamWords

\* InitLookupTable fills the entry of a word of MEM1 from the chunk that holds it.
LEMMA EntriesExact ==
    ASSUME LayoutFits, NEW a \in RamWords, NEW c \in Chunks
    PROVE  c \in Entries(a - RamBase) <=> a \in Words(c) /\ End(c) # RamBase + RamSize
  <1> DEFINE s == GetAddressLookupIndex(Start(c))
             e == GetAddressLookupIndex(End(c))
             k == a - RamBase
  <1>1. /\ RamBase \in Int /\ RamSize \in Int /\ ExBase \in Int /\ ExSize \in Int
        /\ RamBase + RamSize < ExBase
        /\ a \in Int /\ RamBase <= a /\ a < RamBase + RamSize
        /\ Start(c) \in Int /\ End(c) \in Int /\ Start(c) < End(c)
    BY MemoryAssumption, ChunkFacts DEF LayoutFits, RamWords, Addr
  <1>2. ASSUME NEW w \in Int
        PROVE  \/ /\ RamBase <= w /\ w < RamBase + RamSize
                  /\ GetAddressLookupIndex(w) = w - RamBase
               \/ /\ ExBase <= w /\ w < ExBase + ExSize
                  /\ GetAddressLookupIndex(w) = RamSize + (w - ExBase)
               \/ /\ ~(RamBase <= w /\ w < RamBase + RamSize)
                  /\ GetAddressLookupIndex(w) = -1
    BY <1>1 DEF GetAddressLookupIndex, RamWords
  <1>3. c \in Entries(k) <=> s >= 0 /\ e >= s /\ s <= k /\ k < e
    BY DEF Entries
  <1>4. ASSUME NEW w \in Int, RamBase <= w, w < RamBase + RamSize, Start(c) <= w, w < End(c)
        PROVE  RamBase <= Start(c) /\ End(c) <= RamBase + RamSize
    <2>1. w \in Words(c) \cap RamWords
      BY <1>1, <1>4 DEF Words, RamWords
    <2>2. Words(c) \subseteq RamWords
      BY <2>1 DEF LayoutFits
    <2>3. Start(c) \in Words(c) /\ End(c) - 1 \in Words(c)
      BY <1>1 DEF Words
    <2> QED
      BY <1>1, <2>2, <2>3 DEF RamWords
  <1>5. a \in Words(c) <=> Start(c) <= a /\ a < End(c)
    BY <1>1 DEF Words
  <1>6. ASSUME Start(c) <= a, a < End(c), End(c) # RamBase + RamSize
        PROVE  s >= 0 /\ e >= s /\ s <= k /\ k < e
    <2>1. RamBase <= Start(c) /\ End(c) < RamBase + RamSize
      BY <1>1, <1>4, <1>6
    <2>2. s = Start(c) - RamBase /\ e = End(c) - RamBase
      BY <1>1, <1>2, <2>1
    <2> QED
      BY <1>1, <1>6, <2>1, <2>2
  <1>7. ASSUME s >= 0, e >= s, s <= k, k < e
        PROVE  Start(c) <= a /\ a < End(c) /\ End(c) # RamBase + RamSize
    <2>1. RamBase <= Start(c) /\ Start(c) < RamBase + RamSize /\ s = Start(c) - RamBase
      BY <1>1, <1>2, <1>7
    <2>2. End(c) <= RamBase + RamSize
      BY <1>1, <1>4, <2>1
    <2>3. RamBase <= End(c) /\ End(c) < RamBase + RamSize /\ e = End(c) - RamBase
      BY <1>1, <1>2, <1>7, <2>2
    <2> QED
      BY <1>1, <1>7, <2>1, <2>3
  <1> QED
    BY <1>3, <1>5, <1>6, <1>7

\* ChunkIndexOf finds exactly the chunk that holds an address of MEM1, whatever the
\* module: neighbouring chunks never overwrite each other's entries, and the only
\* chunk the table loses is one that ends with MEM1.
THEOREM LookupIsExact ==
    ASSUME LayoutFits
    PROVE  Spec => []LookupExact
  <1>1. LookupExact
    <2> SUFFICES ASSUME active, tableReady, NEW a \in RamWords, NEW c \in Chunks
                 PROVE  ChunkIndexOf(a) = c <=> c \in Entries(a - RamBase)
      BY EntriesExact DEF LookupExact
    <2> DEFINE E == Entries(a - RamBase)
    <2>1. /\ GetAddressLookupIndex(a) = a - RamBase /\ a - RamBase \in Nat
      BY MemoryAssumption DEF GetAddressLookupIndex, RamWords
    <2>2. ChunkIndexOf(a) = IF E # {} THEN CHOOSE x \in E : \A d \in E : d <= x ELSE NoChunk
      BY <2>1 DEF ChunkIndexOf
    <2>3. \A x, y \in E : x = y
      BY <2>1, EntriesUnique
    <2>4. E \subseteq Nat /\ c # NoChunk
      BY ChunkFacts DEF Entries, NoChunk
    <2> HIDE DEF E
    <2>5. ASSUME NEW x \in E PROVE ChunkIndexOf(a) = x
      <3>1. \A d \in E : d <= x
        BY <2>3, <2>4
      <3> QED
        BY <2>2, <2>3, <3>1
    <2>6. ChunkIndexOf(a) = c => c \in E
      BY <2>2, <2>4, <2>5
    <2> QED
      BY <2>5, <2>6 DEF E
  <1> QED
    BY <1>1, PTL

-----------------------------------------------------------------------------
(* The inductive invariant.                                                *)

\* No request runs past the end of the address space.  The page loop computes the
\* last address of what is left modulo 2^32; a request that wraps can put it into
\* the page of the first address and end the loop after one piece.
RequestsDoNotWrap == \A a \in ReqAddr, n \in ReqLen : a + n <= AddrSpace

Busy == phase \in {"split", "search", "demote"}

\* What the page loop still has to do is the tail of the request.
JobInRange ==
    Busy =>
        /\ job.from + job.total <= AddrSpace
        /\ job.len <= job.total
        /\ job.len > 0 => job.addr = job.from + job.total - job.len

\* The piece handed to OnICacheInvalidate ends where the rest of the request
\* starts, and is translated as a whole.
PieceInRange ==
    phase \in {"search", "demote"} =>
        /\ active
        /\ job.from <= job.first
        /\ job.first <= job.last
        /\ job.last = job.from + job.total - job.len - 1
        /\ job.first .. job.last \subseteq Mapped

\* The binary search keeps the first chunk that ends after the piece's first
\* address between lo and hi.
SearchBracket ==
    phase = "search" =>
        /\ job.lo <= job.hi
        /\ \A j \in Chunks : j < job.lo => End(j) <= job.first
        /\ \A j \in Chunks : j >= job.hi => End(j) > job.first

Overlaps(j) == Start(j) <= job.last /\ job.first < End(j)

\* The demotion loop has dealt with every overlapping chunk before lo.
DemotedSoFar ==
    phase = "demote" =>
        /\ \A j \in Chunks : j < job.lo /\ Overlaps(j) => chunkState[j] = "unverified"
        /\ \A j \in Chunks : j >= job.lo => End(j) > job.first

\* The first word of the request the guard has not dealt with.
Frontier == IF phase = "split" THEN job.from + job.total - job.len ELSE job.first

\* No opinion is held about a chunk that owns a translated word behind it.
ProcessedForgotten ==
    Busy /\ active =>
        \A c \in Chunks, w \in Mapped :
            w \in Words(c) /\ job.from <= w /\ w < Frontier => chunkState[c] = "unverified"

\* A core that has not loaded anything has no history.
OffClean == phase = "off" => unseen = {}

LoopInv ==
    /\ JobInRange
    /\ PieceInRange
    /\ SearchBracket
    /\ DemotedSoFar
    /\ ProcessedForgotten
    /\ OffClean

-----------------------------------------------------------------------------
(* Types, and the failure count.                                           *)

State == {"unverified", "verified", "failed"}
FailedIn(s) == {c \in Chunks : s[c] = "failed"}

\* The number of failed chunks is at most the number of chunks.
LEMMA FailedInFinite ==
    ASSUME NEW s
    PROVE  /\ IsFiniteSet(FailedIn(s))
           /\ Cardinality(FailedIn(s)) \in 0 .. Len(ChunkRanges)
  <1>1. IsFiniteSet(Chunks) /\ Cardinality(Chunks) = Len(ChunkRanges)
    <2>1. IsFiniteSet(1 .. Len(ChunkRanges))
      BY ChunkFacts, FS_Interval
    <2>2. Cardinality(1 .. Len(ChunkRanges)) =
            IF 1 > Len(ChunkRanges) THEN 0 ELSE Len(ChunkRanges) - 1 + 1
      BY ChunkFacts, FS_Interval
    <2> QED
      BY <2>1, <2>2, ChunkFacts DEF Chunks
  <1>2. FailedIn(s) \in SUBSET Chunks
    BY DEF FailedIn
  <1>3. IsFiniteSet(FailedIn(s)) /\ Cardinality(FailedIn(s)) <= Cardinality(Chunks)
    BY <1>1, <1>2, FS_Subset
  <1>4. Cardinality(FailedIn(s)) \in Nat
    BY <1>3, FS_CardinalityType
  <1> QED
    BY <1>1, <1>3, <1>4, ChunkFacts

\* What verification and demotion do to the number of failed chunks.
LEMMA FailedInUpdate ==
    ASSUME NEW s \in [Chunks -> State], NEW c \in Chunks
    PROVE  /\ s[c] = "unverified" =>
                Cardinality(FailedIn([s EXCEPT ![c] = "failed"])) = Cardinality(FailedIn(s)) + 1
           /\ s[c] = "unverified" => FailedIn([s EXCEPT ![c] = "verified"]) = FailedIn(s)
           /\ Cardinality(FailedIn([s EXCEPT ![c] = "unverified"])) =
                IF s[c] = "failed" THEN Cardinality(FailedIn(s)) - 1 ELSE Cardinality(FailedIn(s))
  <1>1. IsFiniteSet(FailedIn(s))
    BY FailedInFinite
  <1>2. FailedIn([s EXCEPT ![c] = "failed"]) = FailedIn(s) \cup {c}
    BY DEF FailedIn
  <1>3. FailedIn([s EXCEPT ![c] = "unverified"]) = FailedIn(s) \ {c}
    BY DEF FailedIn
  <1>4. c \in FailedIn(s) <=> s[c] = "failed"
    BY DEF FailedIn
  <1>5. s[c] = "unverified" => FailedIn([s EXCEPT ![c] = "verified"]) = FailedIn(s)
    BY DEF FailedIn
  <1>6. s[c] = "unverified" => s[c] # "failed"
    OBVIOUS
  <1>7. Cardinality(FailedIn(s) \cup {c}) =
          IF c \in FailedIn(s) THEN Cardinality(FailedIn(s)) ELSE Cardinality(FailedIn(s)) + 1
    BY <1>1, FS_AddElement
  <1>8. Cardinality(FailedIn(s) \ {c}) =
          IF c \in FailedIn(s) THEN Cardinality(FailedIn(s)) - 1 ELSE Cardinality(FailedIn(s))
    BY <1>1, FS_RemoveElement
  <1> QED
    BY <1>2, <1>3, <1>4, <1>5, <1>6, <1>7, <1>8

\* A fresh m_chunk_state counts no failure.
LEMMA FailedInFresh ==
    Cardinality(FailedIn([c \in Chunks |-> "unverified"])) = 0
  <1>1. \A d \in Chunks : [c \in Chunks |-> "unverified"][d] # "failed"
    OBVIOUS
  <1>2. FailedIn([c \in Chunks |-> "unverified"]) = {}
    BY <1>1 DEF FailedIn
  <1> QED
    BY <1>2, FS_EmptySet

\* Both facts are needed together: the count stays in range because it is exact.
CountedTypes == TypeOK /\ FailedExact

\* They hold at first.
LEMMA CountedTypesInit == Init => CountedTypes
  <1> SUFFICES ASSUME Init PROVE CountedTypes
    OBVIOUS
  <1>1. 0 \in Addr /\ 0 \in 0 .. AddrSpace
    BY MemoryAssumption DEF Addr
  <1>2. 1 \in 1 .. Len(ChunkRanges) + 1 /\ 0 \in 0 .. Len(ChunkRanges)
    BY ChunkFacts
  <1>3. FailedExact
    BY FailedInFresh DEF Init, FailedExact, FailedIn
  <1>4. TypeOK
    BY <1>1, <1>2 DEF Init, TypeOK, Phase, NoJob
  <1> QED
    BY <1>3, <1>4 DEF CountedTypes

\* The page loop's locals stay in range: what a piece takes is never more than what
\* is left of the request.
LEMMA SplitPageTypes ==
    ASSUME TypeOK, SplitPage
    PROVE  TypeOK'
  <1> DEFINE last == Wrap(job.addr + job.len - 1)
             one == PageStart(job.addr) = PageStart(last)
             n == IF one THEN job.len ELSE PageStart(job.addr) + PageWords - job.addr
             left == IF one THEN 0 ELSE job.len - n
             guard == job.addr \in Mapped /\ active
  <1>1. /\ job.addr \in Addr /\ job.len \in 0 .. AddrSpace /\ job.len > 0
        /\ job.first \in Addr /\ job.last \in Addr
    BY DEF TypeOK, SplitPage
  <1>2. AddrSpace \in Nat \ {0} /\ PageWords \in Nat \ {0}
    BY MemoryAssumption
  <1>3. last \in Addr
    BY <1>1, <1>2 DEF Wrap, Addr
  <1>4. /\ PageStart(job.addr) \in Int /\ 0 <= PageStart(job.addr)
        /\ PageStart(job.addr) <= job.addr
        /\ job.addr < PageStart(job.addr) + PageWords
        /\ PageStart(job.addr) + PageWords <= AddrSpace
    BY <1>1, PageFacts
  <1>5. ASSUME ~one PROVE PageStart(job.addr) + PageWords - job.addr <= job.len
    <2>1. ~(PageStart(job.addr) <= last /\ last < PageStart(job.addr) + PageWords)
      <3>1. job.addr \in Nat /\ last \in Nat
        BY <1>1, <1>3, <1>2 DEF Addr
      <3> QED
        BY <1>2, <1>5, <3>1, SameBlock DEF PageStart
    <2> QED
      BY <1>1, <1>2, <1>4, <2>1 DEF Wrap, Addr
  <1>6. left \in 0 .. AddrSpace /\ (one \/ Wrap(job.addr + n) \in Addr)
    BY <1>1, <1>2, <1>4, <1>5 DEF Wrap, Addr
  <1>7. Wrap(job.addr + n - 1) \in Addr
    BY <1>1, <1>2, <1>3, <1>4, <1>5 DEF Wrap, Addr
  <1>8. 1 \in 1 .. Len(ChunkRanges) + 1 /\ Len(ChunkRanges) + 1 \in 1 .. Len(ChunkRanges) + 1
    BY ChunkFacts
  <1>9. /\ phase' = IF guard THEN "search" ELSE "split"
        /\ job' = [job EXCEPT
                     !.addr = IF one THEN job.addr ELSE Wrap(job.addr + n), !.len = left,
                     !.first = IF guard THEN job.addr ELSE job.first,
                     !.last = IF guard THEN Wrap(job.addr + n - 1) ELSE job.last,
                     !.lo = 1, !.hi = Len(ChunkRanges) + 1]
        /\ UNCHANGED <<coreVars, guardVars, patched, histVars>>
    BY DEF SplitPage
  <1> HIDE DEF last, one, n, left, guard
  <1>10. /\ (IF one THEN job.addr ELSE Wrap(job.addr + n)) \in Addr
         /\ (IF guard THEN job.addr ELSE job.first) \in Addr
         /\ (IF guard THEN Wrap(job.addr + n - 1) ELSE job.last) \in Addr
    BY <1>1, <1>6, <1>7
  <1> QED
    BY <1>6, <1>8, <1>9, <1>10
    DEF TypeOK, Phase, coreVars, guardVars, histVars

\* Every step keeps them.
LEMMA CountedTypesNext == CountedTypes /\ [Next]_vars => CountedTypes'
  <1> SUFFICES ASSUME CountedTypes, [Next]_vars PROVE CountedTypes'
    OBVIOUS
  <1> USE DEF CountedTypes
  <1>0. /\ Len(ChunkRanges) \in Nat
        /\ Chunks = 1 .. Len(ChunkRanges)
        /\ AddrSpace \in Nat \ {0} /\ 0 \in Addr /\ 0 \in 0 .. AddrSpace
        /\ 0 \in 0 .. Len(ChunkRanges)
        /\ 1 \in 1 .. Len(ChunkRanges) + 1 /\ Len(ChunkRanges) + 1 \in 1 .. Len(ChunkRanges) + 1
    BY ChunkFacts, MemoryAssumption DEF Chunks, Addr
  <1>1. ASSUME NEW m \in Candidate, LoadModule(m) PROVE CountedTypes'
    <2>1. TypeOK'
      BY <1>0, <1>1, TitleAssumption DEF TypeOK, LoadModule, Phase, histVars
    <2>2. FailedExact'
      BY <1>1, FailedInFresh DEF LoadModule, FailedExact, FailedIn
    <2> QED
      BY <2>1, <2>2
  <1>2. ASSUME Shutdown PROVE CountedTypes'
    <2>1. TypeOK'
      BY <1>0, <1>2 DEF TypeOK, Shutdown, Phase
    <2>2. FailedExact'
      BY <1>2, FailedInFresh DEF Shutdown, FailedExact, FailedIn
    <2> QED
      BY <2>1, <2>2
  <1>3. ASSUME EnterRun PROVE CountedTypes'
    BY <1>3 DEF TypeOK, EnterRun, ActiveNow, FailedExact, guardVars, loopVars, histVars
  <1>4. ASSUME BeginSlice PROVE CountedTypes'
    BY <1>4 DEF TypeOK, BeginSlice, ActiveNow, FailedExact, guardVars, loopVars, histVars
  <1>5. ASSUME NEW t \in Title \cup {NoTitle}, ChangeTitle(t) PROVE CountedTypes'
    BY <1>5 DEF TypeOK, ChangeTitle, FailedExact, guardVars, loopVars, histVars
  <1>6. ASSUME ClearCache PROVE CountedTypes'
    <2>1. TypeOK'
      BY <1>0, <1>6 DEF TypeOK, ClearCache, coreVars, loopVars
    <2>2. FailedExact'
      BY <1>6, FailedInFresh DEF ClearCache, FailedExact, FailedIn
    <2> QED
      BY <2>1, <2>2
  <1>7. ASSUME NEW a \in Addr, DispatchableAt(a) PROVE CountedTypes'
    <2> DEFINE c == ChunkIndexOf(a)
    <2>1. CASE c # NoChunk /\ chunkState[c] = "unverified"
      <3>1. c \in Chunks
        BY <2>1, ChunkIndexOfType
      <3>2. VerifyChunk(c) /\ UNCHANGED <<coreVars, loopVars, patched, histVars>>
        BY <1>7, <2>1 DEF DispatchableAt
      <3>3. chunkState \in [Chunks -> State] /\ failed = Cardinality(FailedIn(chunkState))
        BY DEF TypeOK, State, FailedExact, FailedIn
      <3> HIDE DEF c
      <3>4. \/ /\ chunkState' = [chunkState EXCEPT ![c] = "verified"]
               /\ failed' = failed
            \/ /\ chunkState' = [chunkState EXCEPT ![c] = "failed"]
               /\ failed' = failed + 1
        BY <3>2 DEF VerifyChunk
      <3>5. failed' = Cardinality(FailedIn(chunkState'))
        <4>1. /\ Cardinality(FailedIn([chunkState EXCEPT ![c] = "failed"]))
                   = Cardinality(FailedIn(chunkState)) + 1
              /\ FailedIn([chunkState EXCEPT ![c] = "verified"]) = FailedIn(chunkState)
          BY <2>1, <3>1, <3>3, FailedInUpdate
        <4> QED
          BY <3>3, <3>4, <4>1
      <3>6. failed' \in 0 .. Len(ChunkRanges)
        BY <3>5, FailedInFinite
      <3>7. chunkState' \in [Chunks -> {"unverified", "verified", "failed"}]
        BY <3>1, <3>3, <3>4 DEF State
      <3>8. TypeOK'
        BY <3>2, <3>6, <3>7 DEF TypeOK, coreVars, loopVars, histVars
      <3> QED
        BY <3>5, <3>8 DEF FailedExact, FailedIn
    <2>2. CASE ~(c # NoChunk /\ chunkState[c] = "unverified")
      BY <1>7, <2>2
      DEF TypeOK, DispatchableAt, FailedExact, guardVars, coreVars, loopVars, histVars
    <2> QED
      BY <2>1, <2>2
  <1>8. ASSUME NEW w \in Writable, Store(w) PROVE CountedTypes'
    <2>1. w \in RamWords
      BY MemoryAssumption
    <2> QED
      BY <1>8, <2>1 DEF TypeOK, Store, FailedExact, guardVars, coreVars, loopVars
  <1>9. ASSUME NEW ea \in ReqAddr, InvalidatingCacheOp(ea) PROVE CountedTypes'
    <2>1. /\ LineStart(ea) \in Addr
          /\ LineWords \in 0 .. AddrSpace
          /\ Wrap(LineStart(ea) + LineWords - 1) \in Addr
      BY MemoryAssumption, LineFacts DEF Addr, Wrap
    <2> QED
      BY <1>0, <1>9, <2>1
      DEF TypeOK, InvalidatingCacheOp, InvalidateICacheLine, Phase, FailedExact, guardVars,
          coreVars, loopVars, histVars
  <1>10. ASSUME NEW ea \in ReqAddr, NativeDataCacheOp(ea) PROVE CountedTypes'
    BY <1>10 DEF TypeOK, NativeDataCacheOp, FailedExact, guardVars, coreVars, loopVars, Touched
  <1>11. ASSUME NEW a \in ReqAddr, NEW n \in ReqLen, InvalidateICache(a, n) PROVE CountedTypes'
    <2>1. a \in Addr /\ n \in 0 .. AddrSpace
      BY MemoryAssumption
    <2> QED
      BY <1>0, <1>11, <2>1
      DEF TypeOK, InvalidateICache, NoJob, Phase, FailedExact, guardVars, coreVars, histVars
  <1>12. ASSUME SplitPage PROVE CountedTypes'
    <2>1. FailedExact'
      BY <1>12 DEF SplitPage, FailedExact, guardVars
    <2> QED
      BY <1>12, <2>1, SplitPageTypes
  <1>13. ASSUME Search PROVE CountedTypes'
    <2> DEFINE mid == job.lo + ((job.hi - job.lo) \div 2)
    <2>1. job.lo \in 1 .. Len(ChunkRanges) + 1 /\ job.hi \in 1 .. Len(ChunkRanges) + 1
      BY DEF TypeOK
    <2>2. mid \in 1 .. Len(ChunkRanges) + 1 /\ mid + 1 \in 1 .. Len(ChunkRanges) + 1
      BY <1>0, <1>13, <2>1 DEF Search
    <2>3. job' = [job EXCEPT !.lo = mid + 1] \/ job' = [job EXCEPT !.hi = mid]
      BY <1>13 DEF Search
    <2>4. UNCHANGED <<coreVars, guardVars, phase, patched, histVars>>
      BY <1>13 DEF Search
    <2> HIDE DEF mid
    <2> QED
      BY <2>2, <2>3, <2>4 DEF TypeOK, FailedExact, guardVars, coreVars, histVars
  <1>14. ASSUME SearchDone PROVE CountedTypes'
    BY <1>14 DEF TypeOK, SearchDone, Phase, FailedExact, guardVars, coreVars, histVars
  <1>15. ASSUME Demote PROVE CountedTypes'
    <2>1. job.lo \in Chunks /\ job.lo + 1 \in 1 .. Len(ChunkRanges) + 1
      BY <1>0, <1>15 DEF TypeOK, Demote, Demoting
    <2>2. chunkState \in [Chunks -> State] /\ failed = Cardinality(FailedIn(chunkState))
      BY DEF TypeOK, State, FailedExact, FailedIn
    <2>3. /\ chunkState' = [chunkState EXCEPT ![job.lo] = "unverified"]
          /\ failed' = IF chunkState[job.lo] = "failed" THEN failed - 1 ELSE failed
      BY <1>15 DEF Demote
    <2>4. failed' = Cardinality(FailedIn(chunkState'))
      BY <2>1, <2>2, <2>3, FailedInUpdate
    <2>5. failed' \in 0 .. Len(ChunkRanges)
      BY <2>4, FailedInFinite
    <2>6. TypeOK'
      BY <1>15, <2>1, <2>3, <2>5 DEF TypeOK, Demote, coreVars, histVars
    <2> QED
      BY <2>4, <2>6 DEF FailedExact, FailedIn
  <1>16. ASSUME DemoteDone PROVE CountedTypes'
    BY <1>16 DEF TypeOK, DemoteDone, Phase, FailedExact, guardVars, coreVars, histVars
  <1>17. ASSUME Finish PROVE CountedTypes'
    BY <1>0, <1>17 DEF TypeOK, Finish, Phase, NoJob, FailedExact, guardVars, coreVars
  <1>18. ASSUME UNCHANGED vars PROVE CountedTypes'
    BY <1>18 DEF TypeOK, FailedExact, vars, coreVars, guardVars, loopVars, histVars
  <1> QED
    BY <1>1, <1>2, <1>3, <1>4, <1>5, <1>6, <1>7, <1>8, <1>9, <1>10, <1>11, <1>12, <1>13,
       <1>14, <1>15, <1>16, <1>17, <1>18
    DEF Next, Step

\* m_failed_chunks always equals the number of chunks in CHUNK_FAILED, so the u32
\* never wraps below zero; with it, every variable and loop local stays in range.
THEOREM FailureCount == Spec => [](TypeOK /\ FailedExact)
  <1>1. Spec => []CountedTypes
    BY CountedTypesInit, CountedTypesNext, PTL DEF Spec
  <1> QED
    BY <1>1, PTL DEF CountedTypes

\* The guard's state, its loop locals included, stays in range: no chunk index,
\* page piece or search bound leaves its domain, whatever the request.
THEOREM GuardTypes == Spec => []TypeOK
  BY FailureCount, PTL

-----------------------------------------------------------------------------
(* Termination.                                                            *)

\* The loop at work, and the turns it may still take.
Stage == IF phase = "search" THEN 2 ELSE IF phase = "demote" THEN 1 ELSE 0
Turns == IF phase = "search" THEN job.hi - job.lo
         ELSE IF phase = "demote" THEN Len(ChunkRanges) + 1 - job.lo ELSE 0

\* Fewer words are left; or the same piece is one loop further on; or the loop has
\* fewer turns left, and none too few.
Descends ==
    \/ job'.len < job.len
    \/ job'.len = job.len /\ Stage' < Stage
    \/ job'.len = job.len /\ Stage' = Stage /\ 0 <= Turns' /\ Turns' < Turns

\* A turn of the page loop takes at least one word off the request.
LEMMA SplitDescends ==
    ASSUME TypeOK, SplitPage
    PROVE  job'.len < job.len
  <1> DEFINE last == Wrap(job.addr + job.len - 1)
             one == PageStart(job.addr) = PageStart(last)
             n == IF one THEN job.len ELSE PageStart(job.addr) + PageWords - job.addr
             left == IF one THEN 0 ELSE job.len - n
  <1>1. job.addr \in Addr /\ job.addr \in Int /\ job.len \in Int /\ job.len > 0
    BY MemoryAssumption DEF TypeOK, SplitPage, Addr
  <1>2. /\ PageStart(job.addr) \in Int /\ PageWords \in Int
        /\ job.addr < PageStart(job.addr) + PageWords
    BY <1>1, PageFacts, MemoryAssumption
  <1>3. left < job.len
    BY <1>1, <1>2
  <1>4. job'.len = left
    BY DEF SplitPage, TypeOK
  <1> QED
    BY <1>3, <1>4

\* Every turn of every loop of an invalidation brings it nearer to its end, also for
\* a request that wraps around the address space: the page loop of InvalidateICache,
\* the binary search and the demotion loop of OnICacheInvalidate cannot spin.
THEOREM InvalidationDescends ==
    Spec => [][Step => phase' = "idle" \/ Descends]_vars
  <1>1. TypeOK => [Step => phase' = "idle" \/ Descends]_vars
    <2> SUFFICES ASSUME TypeOK, Step PROVE phase' = "idle" \/ Descends
      OBVIOUS
    <2>1. /\ job.lo \in Nat /\ job.hi \in Nat /\ Len(ChunkRanges) \in Nat
      BY ChunkFacts DEF TypeOK
    <2>2. CASE SplitPage
      BY <2>2, SplitDescends DEF Descends
    <2>3. CASE Search
      <3> DEFINE mid == job.lo + ((job.hi - job.lo) \div 2)
      <3>1. job.lo < job.hi /\ phase = "search" /\ phase' = "search" /\ job'.len = job.len
        BY <2>3 DEF Search, TypeOK
      <3>2. /\ mid \in Int /\ job.lo <= mid /\ mid < job.hi
        BY <2>1, <3>1
      <3>3. \/ job'.lo = mid + 1 /\ job'.hi = job.hi
            \/ job'.lo = job.lo /\ job'.hi = mid
        BY <2>3 DEF Search, TypeOK
      <3> HIDE DEF mid
      <3> QED
        BY <2>1, <3>1, <3>2, <3>3 DEF Descends, Stage, Turns
    <2>4. CASE SearchDone
      BY <2>4 DEF SearchDone, Descends, Stage
    <2>5. CASE Demote
      <3>1. /\ phase = "demote" /\ phase' = "demote" /\ job.lo <= Len(ChunkRanges)
            /\ job'.lo = job.lo + 1 /\ job'.len = job.len
        BY <2>5 DEF Demote, Demoting, TypeOK
      <3> QED
        BY <2>1, <3>1 DEF Descends, Stage, Turns
    <2>6. CASE DemoteDone
      BY <2>6 DEF DemoteDone, Descends, Stage
    <2>7. CASE Finish
      BY <2>7 DEF Finish
    <2> QED
      BY <2>2, <2>3, <2>4, <2>5, <2>6, <2>7 DEF Step
  <1> QED
    BY <1>1, GuardTypes, PTL

-----------------------------------------------------------------------------
(* The invalidation loops.                                                 *)

\* Outside an invalidation the loop invariant asks for nothing.
LEMMA LoopInvQuiet ==
    ASSUME phase \in {"idle", "off"}, phase = "off" => unseen = {}
    PROVE  LoopInv
  BY DEF LoopInv, JobInRange, PieceInRange, SearchBracket, DemotedSoFar,
         ProcessedForgotten, OffClean, Busy

\* It holds at first.
LEMMA LoopInvInit == Init => LoopInv
  BY LoopInvQuiet DEF Init

\* A cache line operation hands the whole line to the guard.
LEMMA LineLoopInv ==
    ASSUME TypeOK, NEW ea \in ReqAddr, InvalidatingCacheOp(ea)
    PROVE  LoopInv'
  <1>1. CASE LineStart(ea) \in Mapped /\ active
    <2> DEFINE a == LineStart(ea)
    <2>1. /\ a \in Addr /\ a + LineWords <= AddrSpace
          /\ AddrSpace \in Nat \ {0} /\ LineWords \in Nat \ {0}
          /\ Len(ChunkRanges) \in Nat
      BY MemoryAssumption, LineFacts, ChunkFacts
    <2>2. a + LineWords - 1 \in Addr /\ Wrap(a + LineWords - 1) = a + LineWords - 1
      BY <2>1 DEF Wrap, Addr
    <2>3. /\ phase' = "search" /\ active' = active
          /\ job' = [from |-> a, total |-> LineWords, addr |-> a, len |-> 0,
                     first |-> a, last |-> Wrap(a + LineWords - 1),
                     lo |-> 1, hi |-> Len(ChunkRanges) + 1]
      BY <1>1 DEF InvalidatingCacheOp, InvalidateICacheLine, coreVars
    <2>4. \A b \in a .. a + LineWords - 1 : b \in Mapped
      <3>1. ea \in Addr
        BY MemoryAssumption
      <3> QED
        BY <1>1, <3>1, TranslationAssumption
    <2> HIDE DEF a
    <2>5. /\ job'.from = a /\ job'.total = LineWords /\ job'.addr = a /\ job'.len = 0
          /\ job'.first = a /\ job'.last = a + LineWords - 1
          /\ job'.lo = 1 /\ job'.hi = Len(ChunkRanges) + 1
      BY <2>2, <2>3
    <2>6. JobInRange'
      BY <2>1, <2>5 DEF JobInRange, Addr
    <2>7. PieceInRange'
      BY <1>1, <2>1, <2>3, <2>4, <2>5 DEF PieceInRange, Addr
    <2>8. SearchBracket'
      BY <2>1, <2>3, <2>5, ChunkFacts DEF SearchBracket
    <2>9. DemotedSoFar' /\ OffClean'
      BY <2>3 DEF DemotedSoFar, OffClean
    <2>10. ProcessedForgotten'
      <3>1. Frontier' = job'.from
        BY <2>3, <2>5 DEF Frontier
      <3>2. \A w \in Mapped : ~(job'.from <= w /\ w < job'.from)
        BY <2>1, <2>5, TranslationAssumption DEF Addr
      <3> QED
        BY <3>1, <3>2 DEF ProcessedForgotten
    <2> QED
      BY <2>6, <2>7, <2>8, <2>9, <2>10 DEF LoopInv
  <1>2. CASE ~(LineStart(ea) \in Mapped /\ active)
    <2>1. phase' = "idle"
      BY <1>2 DEF InvalidatingCacheOp, InvalidateICacheLine, loopVars
    <2>2. phase' \in {"idle", "off"} /\ (phase' = "off" => unseen' = {})
      BY <2>1
    <2> QED
      BY <2>2 DEF LoopInv, JobInRange, PieceInRange, SearchBracket, DemotedSoFar,
                  ProcessedForgotten, OffClean, Busy
  <1> QED
    BY <1>1, <1>2

\* A range request starts with everything left to do.
LEMMA RangeLoopInv ==
    ASSUME RequestsDoNotWrap, NEW a \in ReqAddr, NEW n \in ReqLen, InvalidateICache(a, n)
    PROVE  LoopInv'
  <1>1. a \in Addr /\ n \in Nat /\ AddrSpace \in Nat /\ a + n <= AddrSpace
    BY MemoryAssumption DEF RequestsDoNotWrap, Addr
  <1>2. /\ phase' = "split"
        /\ job'.from = a /\ job'.total = n /\ job'.addr = a /\ job'.len = n
    BY DEF InvalidateICache, NoJob
  <1>3. JobInRange'
    BY <1>1, <1>2 DEF JobInRange, Addr
  <1>4. PieceInRange' /\ SearchBracket' /\ DemotedSoFar' /\ OffClean'
    BY <1>2 DEF PieceInRange, SearchBracket, DemotedSoFar, OffClean
  <1>5. ProcessedForgotten'
    <2>1. Frontier' = a
      BY <1>1, <1>2 DEF Frontier, Addr
    <2>2. \A w \in Mapped : ~(a <= w /\ w < a)
      BY <1>1, TranslationAssumption DEF Addr
    <2> QED
      BY <1>2, <2>1, <2>2 DEF ProcessedForgotten
  <1> QED
    BY <1>3, <1>4, <1>5 DEF LoopInv

\* A chunk that comes later starts and ends later.
LEMMA ChunkOrder ==
    ASSUME NEW c \in Chunks, NEW d \in Chunks, c <= d
    PROVE  Start(c) <= Start(d) /\ End(c) <= End(d)
  <1>1. c = d \/ c < d
    BY ChunkFacts
  <1>2. CASE c < d
    BY <1>2, ChunkFacts DEF Addr
  <1> QED
    BY <1>1, <1>2, ChunkFacts DEF Addr

\* One turn of the page loop: the piece is the part of the rest that lies in the
\* page of its first address, so it is translated as a whole or not at all.
LEMMA SplitLoopInv ==
    ASSUME TypeOK, LoopInv, SplitPage
    PROVE  LoopInv'
  <1> DEFINE last == Wrap(job.addr + job.len - 1)
             one == PageStart(job.addr) = PageStart(last)
             n == IF one THEN job.len ELSE PageStart(job.addr) + PageWords - job.addr
             left == IF one THEN 0 ELSE job.len - n
             guard == job.addr \in Mapped /\ active
  <1>1. /\ job.addr \in Addr /\ job.from \in Addr /\ job.len \in Nat /\ job.total \in Nat
        /\ AddrSpace \in Nat \ {0} /\ PageWords \in Nat \ {0}
    BY MemoryAssumption DEF TypeOK
  <1>2. /\ job.len > 0 /\ job.len <= job.total
        /\ job.addr = job.from + job.total - job.len
        /\ job.from + job.total <= AddrSpace
    BY DEF SplitPage, LoopInv, JobInRange, Busy
  <1>3. last = job.addr + job.len - 1 /\ last \in Addr
    BY <1>1, <1>2 DEF Wrap, Addr
  <1>4. /\ PageStart(job.addr) \in Int
        /\ PageStart(job.addr) <= job.addr
        /\ job.addr < PageStart(job.addr) + PageWords
        /\ PageStart(job.addr) + PageWords <= AddrSpace
        /\ PageStart(last) \in Int /\ last < PageStart(last) + PageWords
    BY <1>1, <1>3, PageFacts
  <1>5. ASSUME ~one PROVE PageStart(job.addr) + PageWords - job.addr <= job.len
    <2>1. ~(PageStart(job.addr) <= last /\ last < PageStart(job.addr) + PageWords)
      <3>1. job.addr \in Nat /\ last \in Nat
        BY <1>1, <1>3 DEF Addr
      <3> QED
        BY <1>1, <1>5, <3>1, SameBlock DEF PageStart
    <2> QED
      BY <1>1, <1>2, <1>3, <1>4, <2>1 DEF Addr
  <1>6. /\ n \in Nat /\ 1 <= n /\ n <= job.len /\ left = job.len - n
        /\ job.addr + n <= PageStart(job.addr) + PageWords
        /\ one => left = 0
    BY <1>1, <1>2, <1>3, <1>4, <1>5 DEF Addr
  <1>7. /\ phase' = IF guard THEN "search" ELSE "split"
        /\ job' = [job EXCEPT
                     !.addr = IF one THEN job.addr ELSE Wrap(job.addr + n), !.len = left,
                     !.first = IF guard THEN job.addr ELSE job.first,
                     !.last = IF guard THEN Wrap(job.addr + n - 1) ELSE job.last,
                     !.lo = 1, !.hi = Len(ChunkRanges) + 1]
        /\ UNCHANGED <<active, chunkState>>
        /\ phase = "split"
    BY DEF SplitPage, coreVars, guardVars
  <1>8. \A w \in Addr : job.addr <= w /\ w < job.addr + n => (w \in Mapped <=> job.addr \in Mapped)
    <2> SUFFICES ASSUME NEW w \in Addr, job.addr <= w, w < job.addr + n
                 PROVE  w \in Mapped <=> job.addr \in Mapped
      OBVIOUS
    <2>1. PageStart(job.addr) <= w /\ w < PageStart(job.addr) + PageWords
      BY <1>1, <1>4, <1>6 DEF Addr
    <2> QED
      BY <1>1, <2>1, TranslationAssumption
  <1> HIDE DEF last, one, n, left, guard
  <1>9. job \in [from : Addr, total : 0 .. AddrSpace, addr : Addr, len : 0 .. AddrSpace,
                 first : Addr, last : Addr,
                 lo : 1 .. Len(ChunkRanges) + 1, hi : 1 .. Len(ChunkRanges) + 1]
    BY DEF TypeOK
  <1>10. /\ job'.from = job.from /\ job'.total = job.total /\ job'.len = left
         /\ job'.addr = (IF one THEN job.addr ELSE Wrap(job.addr + n))
         /\ job'.lo = 1 /\ job'.hi = Len(ChunkRanges) + 1
         /\ guard => job'.first = job.addr /\ job'.last = Wrap(job.addr + n - 1)
    BY <1>7, <1>9
  <1>11. JobInRange'
    <2>1. left > 0 => ~one /\ Wrap(job.addr + n) = job.addr + n
      BY <1>1, <1>2, <1>6 DEF Wrap, Addr
    <2> QED
      <3>1. left <= job.total /\ job.addr + n = job.from + job.total - left
        BY <1>1, <1>2, <1>6 DEF Addr
      <3>2. job'.len > 0 => job'.addr = job.addr + n
        BY <1>10, <2>1
      <3> QED
        BY <1>2, <1>10, <3>1, <3>2 DEF JobInRange
  <1>12. DemotedSoFar' /\ OffClean'
    BY <1>7 DEF DemotedSoFar, OffClean
  <1>13. CASE guard
    <2>1. Wrap(job.addr + n - 1) = job.addr + n - 1
      BY <1>1, <1>2, <1>6 DEF Wrap, Addr
    <2>2. job.addr .. job.addr + n - 1 \subseteq Mapped
      <3> SUFFICES ASSUME NEW w \in job.addr .. job.addr + n - 1 PROVE w \in Mapped
        OBVIOUS
      <3>1. w \in Addr /\ job.addr <= w /\ w < job.addr + n
        BY <1>1, <1>2, <1>6 DEF Addr
      <3> QED
        BY <1>8, <1>13, <3>1 DEF guard
    <2>3. PieceInRange'
      <3>1. job'.first = job.addr /\ job'.last = job.addr + n - 1 /\ active'
        BY <1>7, <1>10, <1>13, <2>1 DEF guard
      <3>2. /\ job.from <= job.addr /\ job.addr <= job.addr + n - 1
            /\ job.addr + n - 1 = job.from + job.total - left - 1
        BY <1>1, <1>2, <1>6 DEF Addr
      <3> QED
        BY <1>10, <2>2, <3>1, <3>2 DEF PieceInRange
    <2>4. SearchBracket'
      BY <1>10, ChunkFacts DEF SearchBracket
    <2>5. Frontier' = Frontier
      BY <1>2, <1>7, <1>10, <1>13 DEF Frontier
    <2>6. ProcessedForgotten'
      BY <1>7, <1>10, <2>5 DEF ProcessedForgotten, LoopInv, Busy
    <2> QED
      BY <1>11, <1>12, <2>3, <2>4, <2>6 DEF LoopInv
  <1>14. CASE ~guard
    <2>1. phase' = "split"
      BY <1>7, <1>14
    <2>2. PieceInRange' /\ SearchBracket'
      BY <2>1 DEF PieceInRange, SearchBracket
    <2>3. ProcessedForgotten'
      <3> SUFFICES ASSUME active', NEW c \in Chunks, NEW w \in Mapped,
                          w \in Words(c), job'.from <= w, w < Frontier'
                   PROVE  chunkState'[c] = "unverified"
        BY DEF ProcessedForgotten
      <3>1. active /\ job.addr \notin Mapped /\ w \in Addr
        BY <1>7, <1>14, TranslationAssumption DEF guard
      <3>2. Frontier = job.addr /\ Frontier' = job.addr + n
        BY <1>1, <1>2, <1>6, <1>7, <1>10, <2>1 DEF Frontier, Addr
      <3>3. w < Frontier
        BY <1>1, <1>6, <1>8, <3>1, <3>2 DEF Addr
      <3> QED
        BY <1>7, <1>10, <3>1, <3>3 DEF ProcessedForgotten, LoopInv, Busy
    <2> QED
      BY <1>11, <1>12, <2>2, <2>3 DEF LoopInv
  <1> QED
    BY <1>13, <1>14

\* One turn of the binary search.
LEMMA SearchLoopInv ==
    ASSUME TypeOK, LoopInv, Search
    PROVE  LoopInv'
  <1> DEFINE mid == job.lo + ((job.hi - job.lo) \div 2)
  <1>1. /\ job.lo \in 1 .. Len(ChunkRanges) + 1 /\ job.hi \in 1 .. Len(ChunkRanges) + 1
        /\ Len(ChunkRanges) \in Nat /\ job.first \in Int
    BY ChunkFacts, MemoryAssumption DEF TypeOK, Addr
  <1>2. mid \in Chunks /\ job.lo <= mid /\ mid + 1 <= job.hi
    BY <1>1 DEF Search, Chunks
  <1>3. \/ End(mid) <= job.first /\ job' = [job EXCEPT !.lo = mid + 1]
        \/ ~(End(mid) <= job.first) /\ job' = [job EXCEPT !.hi = mid]
    BY DEF Search
  <1>4. phase = "search" /\ UNCHANGED <<phase, active, chunkState, unseen>>
    BY DEF Search, coreVars, guardVars, histVars
  <1> HIDE DEF mid
  <1>5. /\ job'.from = job.from /\ job'.total = job.total /\ job'.len = job.len
        /\ job'.addr = job.addr /\ job'.first = job.first /\ job'.last = job.last
    BY <1>3 DEF TypeOK
  <1>6. /\ job.lo <= job.hi
        /\ \A j \in Chunks : j < job.lo => End(j) <= job.first
        /\ \A j \in Chunks : j >= job.hi => End(j) > job.first
    BY <1>4 DEF LoopInv, SearchBracket
  <1>7. CASE End(mid) <= job.first /\ job' = [job EXCEPT !.lo = mid + 1]
    <2>1. job'.lo = mid + 1 /\ job'.hi = job.hi
      BY <1>7 DEF TypeOK
    <2>2. \A j \in Chunks : j < mid + 1 => End(j) <= job.first
      BY <1>1, <1>2, <1>7, ChunkFacts, ChunkOrder DEF Addr
    <2> QED
      BY <1>2, <1>4, <1>5, <1>6, <2>1, <2>2
      DEF LoopInv, JobInRange, PieceInRange, SearchBracket, DemotedSoFar,
          ProcessedForgotten, OffClean, Busy, Frontier
  <1>8. CASE ~(End(mid) <= job.first) /\ job' = [job EXCEPT !.hi = mid]
    <2>1. job'.lo = job.lo /\ job'.hi = mid
      BY <1>8 DEF TypeOK
    <2>2. \A j \in Chunks : j >= mid => End(j) > job.first
      BY <1>1, <1>2, <1>8, ChunkFacts, ChunkOrder DEF Addr
    <2> QED
      BY <1>2, <1>4, <1>5, <1>6, <2>1, <2>2
      DEF LoopInv, JobInRange, PieceInRange, SearchBracket, DemotedSoFar,
          ProcessedForgotten, OffClean, Busy, Frontier
  <1> QED
    BY <1>3, <1>7, <1>8

\* The search is over: every chunk before lo ends before the piece.
LEMMA SearchDoneLoopInv ==
    ASSUME TypeOK, LoopInv, SearchDone
    PROVE  LoopInv'
  <1>1. /\ phase = "search" /\ phase' = "demote" /\ job.lo >= job.hi
        /\ UNCHANGED <<active, chunkState, job, unseen>>
    BY DEF SearchDone, coreVars, guardVars, histVars
  <1>2. /\ job.lo <= job.hi
        /\ \A j \in Chunks : j < job.lo => End(j) <= job.first
        /\ \A j \in Chunks : j >= job.hi => End(j) > job.first
    BY <1>1 DEF LoopInv, SearchBracket
  <1>3. /\ job.lo \in Int /\ job.hi \in Int /\ job.first \in Int
        /\ \A j \in Chunks : j \in Int /\ End(j) \in Int
    BY ChunkFacts, MemoryAssumption DEF TypeOK, Addr
  <1>4. job.lo = job.hi
    BY <1>1, <1>2, <1>3
  <1>5. DemotedSoFar'
    BY <1>1, <1>2, <1>3, <1>4 DEF DemotedSoFar, Overlaps
  <1> QED
    BY <1>1, <1>5
    DEF LoopInv, JobInRange, PieceInRange, SearchBracket, ProcessedForgotten, OffClean,
        Busy, Frontier

\* One turn of the demotion loop.
LEMMA DemoteLoopInv ==
    ASSUME TypeOK, LoopInv, Demote
    PROVE  LoopInv'
  <1>1. /\ phase = "demote"
        /\ chunkState' = [chunkState EXCEPT ![job.lo] = "unverified"]
        /\ job' = [job EXCEPT !.lo = job.lo + 1]
        /\ UNCHANGED <<active, phase, unseen>>
    BY DEF Demote, coreVars, histVars
  <1>2. job.lo \in Chunks /\ job.lo \in Int /\ \A j \in Chunks : j \in Int
    BY ChunkFacts DEF Demote, Demoting, TypeOK, Chunks
  <1>3. /\ job'.from = job.from /\ job'.total = job.total /\ job'.len = job.len
        /\ job'.addr = job.addr /\ job'.first = job.first /\ job'.last = job.last
        /\ job'.lo = job.lo + 1
    BY <1>1 DEF TypeOK
  <1>4. /\ \A j \in Chunks : chunkState[j] = "unverified" => chunkState'[j] = "unverified"
        /\ chunkState'[job.lo] = "unverified"
    BY <1>1, <1>2 DEF TypeOK
  <1>5. DemotedSoFar'
    BY <1>1, <1>2, <1>3, <1>4 DEF DemotedSoFar, Overlaps, LoopInv
  <1>6. ProcessedForgotten'
    BY <1>1, <1>3, <1>4 DEF ProcessedForgotten, LoopInv, Busy, Frontier
  <1> QED
    BY <1>1, <1>3, <1>5, <1>6
    DEF LoopInv, JobInRange, PieceInRange, SearchBracket, OffClean, Busy

\* The demotion loop is over: no chunk that overlaps the piece is trusted.
LEMMA DemoteDoneLoopInv ==
    ASSUME TypeOK, LoopInv, DemoteDone
    PROVE  LoopInv'
  <1>1. /\ phase = "demote" /\ phase' = "split" /\ ~Demoting
        /\ UNCHANGED <<active, chunkState, job, unseen>>
    BY DEF DemoteDone, coreVars, guardVars, histVars
  <1>2. /\ job.lo \in Int /\ job.first \in Int /\ job.last \in Int /\ job.from \in Int
        /\ job.total \in Int /\ job.len \in Int
        /\ job.lo \in 1 .. Len(ChunkRanges) + 1 /\ Len(ChunkRanges) \in Nat
    BY ChunkFacts, MemoryAssumption DEF TypeOK, Addr
  <1>3. job.last = job.from + job.total - job.len - 1
    BY <1>1 DEF LoopInv, PieceInRange
  <1>4. ProcessedForgotten'
    <2> SUFFICES ASSUME active, NEW c \in Chunks, NEW w \in Mapped,
                        w \in Words(c), job.from <= w, w < Frontier'
                 PROVE  chunkState[c] = "unverified"
      BY <1>1 DEF ProcessedForgotten
    <2>1. /\ w \in Int /\ c \in Int /\ Start(c) \in Int /\ End(c) \in Int
          /\ Start(c) <= w /\ w < End(c)
      BY ChunkFacts, TranslationAssumption DEF Words, Addr
    <2>2. w <= job.last
      BY <1>1, <1>2, <1>3, <2>1 DEF Frontier
    <2>3. CASE w < job.first
      BY <1>1, <2>3 DEF LoopInv, ProcessedForgotten, Busy, Frontier
    <2>4. CASE job.first <= w
      <3>1. Overlaps(c)
        BY <1>2, <2>1, <2>2, <2>4 DEF Overlaps
      <3>2. c < job.lo
        <4> SUFFICES ASSUME job.lo <= c PROVE FALSE
          BY <1>2, <2>1
        <4>1. job.lo \in Chunks
          BY <1>2, ChunkFacts DEF Chunks
        <4>2. Start(job.lo) > job.last
          BY <1>1, <1>2, <4>1, ChunkFacts DEF Demoting, Addr
        <4>3. Start(job.lo) <= Start(c)
          BY <4>1, ChunkOrder
        <4> QED
          BY <1>2, <2>1, <2>2, <4>1, <4>2, <4>3, ChunkFacts DEF Addr
      <3> QED
        BY <1>1, <3>1, <3>2 DEF LoopInv, DemotedSoFar
    <2> QED
      BY <1>2, <2>1, <2>3, <2>4
  <1> QED
    BY <1>1, <1>4
    DEF LoopInv, JobInRange, PieceInRange, SearchBracket, DemotedSoFar, OffClean, Busy

\* Every step keeps the loop invariant.
LEMMA LoopInvNext ==
    ASSUME RequestsDoNotWrap, TypeOK, LoopInv, [Next]_vars
    PROVE  LoopInv'
  <1> USE DEF histVars
  <1>0. ASSUME phase' = "idle" PROVE LoopInv'
    BY <1>0 DEF LoopInv, JobInRange, PieceInRange, SearchBracket, DemotedSoFar,
                ProcessedForgotten, OffClean, Busy
  <1>1. ASSUME NEW m \in Candidate, LoadModule(m) PROVE LoopInv'
    BY <1>0, <1>1 DEF LoadModule
  <1>2. ASSUME Shutdown PROVE LoopInv'
    BY <1>2 DEF Shutdown, LoopInv, JobInRange, PieceInRange, SearchBracket, DemotedSoFar,
                ProcessedForgotten, OffClean, Busy
  <1>3. ASSUME \/ EnterRun \/ BeginSlice \/ ClearCache
               \/ \E t \in Title \cup {NoTitle} : ChangeTitle(t)
               \/ \E a \in Addr : DispatchableAt(a)
               \/ \E w \in Writable : Store(w)
               \/ \E ea \in ReqAddr : NativeDataCacheOp(ea)
        PROVE  LoopInv'
    <2>1. phase' = "idle"
      BY <1>3 DEF EnterRun, BeginSlice, ClearCache, ChangeTitle, DispatchableAt, Store,
                  NativeDataCacheOp, loopVars
    <2> QED
      BY <1>0, <2>1
  <1>4. ASSUME Finish PROVE LoopInv'
    BY <1>0, <1>4 DEF Finish
  <1>5. ASSUME UNCHANGED vars PROVE LoopInv'
    BY <1>5
    DEF vars, coreVars, guardVars, loopVars, LoopInv, JobInRange, PieceInRange,
        SearchBracket, DemotedSoFar, ProcessedForgotten, OffClean, Busy, Frontier, Overlaps
  <1> QED
    BY <1>1, <1>2, <1>3, <1>4, <1>5, LineLoopInv, RangeLoopInv, SplitLoopInv,
       SearchLoopInv, SearchDoneLoopInv, DemoteLoopInv, DemoteDoneLoopInv
    DEF Next, Step

-----------------------------------------------------------------------------
(* What the guard promises.                                                *)

\* When an invalidation returns, the guard holds no opinion about what it touched.
LEMMA TouchedForgotten ==
    ASSUME TypeOK, LoopInv, Finish, active, NEW c \in Touched(job.from, job.total)
    PROVE  c \in Chunks /\ chunkState[c] = "unverified"
  <1>1. c \in Chunks
    BY DEF Touched
  <1>2. PICK w \in Words(c) \cap Mapped : Behind(job.from, w) < job.total
    BY DEF Touched
  <1>3. /\ w \in Int /\ 0 <= w /\ w < AddrSpace
        /\ job.from \in Int /\ job.total \in Int /\ AddrSpace \in Int
    <2>1. w \in Addr /\ AddrSpace \in Nat
      BY <1>2, TranslationAssumption, MemoryAssumption
    <2>2. job.from \in Addr /\ job.total \in 0 .. AddrSpace
      BY DEF TypeOK
    <2> QED
      BY <2>1, <2>2 DEF Addr
  <1>4. phase = "split" /\ job.len = 0 /\ job.from + job.total <= AddrSpace
    BY DEF Finish, LoopInv, JobInRange, Busy
  <1>5. job.from <= w /\ w < job.from + job.total
    BY <1>2, <1>3, <1>4 DEF Behind
  <1>6. w < Frontier
    BY <1>3, <1>4, <1>5 DEF Frontier
  <1> QED
    BY <1>1, <1>2, <1>4, <1>5, <1>6 DEF LoopInv, ProcessedForgotten, Busy

\* The chunk a demotion drops is one the request touches.
LEMMA DemotedIsTouched ==
    ASSUME TypeOK, LoopInv, Demote
    PROVE  job.lo \in Touched(job.from, job.total)
  <1> DEFINE c == job.lo
             w == IF Start(c) < job.first THEN job.first ELSE Start(c)
  <1>1. c \in Chunks /\ c \in Int
    BY ChunkFacts DEF Demote, Demoting, TypeOK, Chunks
  <1>2. /\ Start(c) \in Int /\ End(c) \in Int /\ Start(c) < End(c) /\ Start(c) >= 0
        /\ job.from \in Int /\ job.total \in Int /\ job.len \in Nat
        /\ job.first \in Int /\ job.last \in Int
    BY <1>1, ChunkFacts, MemoryAssumption DEF TypeOK, Addr
  <1>3. /\ job.from <= job.first /\ job.first <= job.last
        /\ job.last = job.from + job.total - job.len - 1
        /\ job.first .. job.last \subseteq Mapped
        /\ End(c) > job.first
    BY <1>1, <1>2 DEF Demote, LoopInv, PieceInRange, DemotedSoFar
  <1>4. Start(c) <= job.last
    BY DEF Demote, Demoting
  <1> HIDE DEF c
  <1>5. w \in job.first .. job.last /\ w \in Words(c)
    BY <1>2, <1>3, <1>4 DEF Words
  <1>6. w \in Mapped /\ w >= job.from /\ w - job.from < job.total
    BY <1>2, <1>3, <1>5
  <1>7. Behind(job.from, w) < job.total
    BY <1>6 DEF Behind
  <1> QED
    BY <1>1, <1>5, <1>6, <1>7 DEF Touched, c

SoundInv == TypeOK /\ FailedExact /\ LoopInv /\ GuardSound

\* Every step keeps GuardSound: hashing looks at the text, a store is remembered as
\* unseen, and an invalidation forgets a chunk's history only with its opinion.
LEMMA GuardSoundNext ==
    ASSUME TypeOK, LoopInv, GuardSound, [Next]_vars
    PROVE  GuardSound'
  <1> SUFFICES ASSUME NEW c \in Chunks, chunkState'[c] = "verified", c \in Differs'
               PROVE  c \in unseen'
    BY DEF GuardSound
  <1>0. chunkState \in [Chunks -> State]
    BY DEF TypeOK, State
  <1>1. ASSUME UNCHANGED <<chunkState, patched, unseen>> PROVE c \in unseen'
    BY <1>1 DEF GuardSound, Differs
  <1>2. ASSUME NEW m \in Candidate, LoadModule(m) PROVE c \in unseen'
    BY <1>1, <1>2 DEF LoadModule, histVars
  <1>3. ASSUME Shutdown \/ ClearCache PROVE c \in unseen'
    BY <1>3 DEF Shutdown, ClearCache
  <1>4. ASSUME NEW a \in Addr, DispatchableAt(a) PROVE c \in unseen'
    <2> DEFINE d == ChunkIndexOf(a)
    <2>1. CASE d # NoChunk /\ chunkState[d] = "unverified"
      <3>1. d \in Chunks
        BY <2>1, ChunkIndexOfType
      <3>2. VerifyChunk(d) /\ UNCHANGED <<patched, unseen>>
        BY <1>4, <2>1 DEF DispatchableAt, histVars
      <3> HIDE DEF d
      <3>3. CASE c = d
        BY <1>0, <3>1, <3>2, <3>3 DEF VerifyChunk, Differs
      <3>4. CASE c # d
        BY <1>0, <3>1, <3>2, <3>4 DEF VerifyChunk, Differs, GuardSound
      <3> QED
        BY <3>3, <3>4
    <2>2. CASE ~(d # NoChunk /\ chunkState[d] = "unverified")
      BY <1>1, <1>4, <2>2 DEF DispatchableAt, guardVars, histVars
    <2> QED
      BY <2>1, <2>2
  <1>5. ASSUME NEW w \in Writable, Store(w) PROVE c \in unseen'
    <2>1. CASE w \in Words(c)
      BY <1>5, <2>1 DEF Store
    <2>2. CASE w \notin Words(c)
      <3>1. c \in Differs
        BY <1>5, <2>2 DEF Store, Differs
      <3>2. chunkState[c] = "verified" /\ unseen \subseteq unseen'
        BY <1>5 DEF Store, guardVars
      <3> QED
        BY <3>1, <3>2 DEF GuardSound
    <2> QED
      BY <2>1, <2>2
  <1>6. ASSUME Demote PROVE c \in unseen'
    <2>1. /\ chunkState' = [chunkState EXCEPT ![job.lo] = "unverified"]
          /\ UNCHANGED <<patched, unseen>>
      BY <1>6 DEF Demote, histVars
    <2>2. chunkState[c] = "verified"
      BY <1>0, <2>1
    <2> QED
      BY <2>1, <2>2 DEF GuardSound, Differs
  <1>7. ASSUME Finish PROVE c \in unseen'
    <2>1. UNCHANGED <<chunkState, patched, active>> /\ c \in unseen
      BY <1>7 DEF Finish, GuardSound, Differs, guardVars, coreVars
    <2>2. CASE active
      <3>1. c \notin Touched(job.from, job.total)
        BY <1>7, <2>1, <2>2, TouchedForgotten
      <3> QED
        BY <1>7, <2>1, <2>2, <3>1 DEF Finish
    <2>3. CASE ~active
      BY <1>7, <2>1, <2>3 DEF Finish
    <2> QED
      BY <2>2, <2>3
  <1>8. ASSUME \/ EnterRun \/ BeginSlice
               \/ \E t \in Title \cup {NoTitle} : ChangeTitle(t)
               \/ \E ea \in ReqAddr : InvalidatingCacheOp(ea) \/ NativeDataCacheOp(ea)
               \/ \E a \in ReqAddr, n \in ReqLen : InvalidateICache(a, n)
               \/ SplitPage \/ Search \/ SearchDone \/ DemoteDone
               \/ UNCHANGED vars
        PROVE  c \in unseen'
    <2>1. UNCHANGED <<chunkState, patched, unseen>>
      BY <1>8
      DEF EnterRun, BeginSlice, ChangeTitle, InvalidatingCacheOp, NativeDataCacheOp,
          InvalidateICache, SplitPage, Search, SearchDone, DemoteDone, vars, guardVars, histVars
    <2> QED
      BY <1>1, <2>1
  <1> QED
    BY <1>2, <1>3, <1>4, <1>5, <1>6, <1>7, <1>8 DEF Next, Step

\* All the invariants together, for requests that do not wrap.
LEMMA SoundInvariant ==
    ASSUME RequestsDoNotWrap
    PROVE  Spec => []SoundInv
  <1>1. Init => SoundInv
    <2>1. Init => GuardSound
      BY DEF Init, GuardSound
    <2> QED
      BY <2>1, CountedTypesInit, LoopInvInit DEF SoundInv, CountedTypes
  <1>2. SoundInv /\ [Next]_vars => SoundInv'
    BY CountedTypesNext, LoopInvNext, GuardSoundNext DEF SoundInv, CountedTypes
  <1> QED
    BY <1>1, <1>2, PTL DEF Spec

\* Whatever the memory layout and the module, as long as no invalidation wraps
\* around the address space: a chunk is trusted although its text changed only
\* while no invalidation has reached it since (DispatchableAt, OnICacheInvalidate).
THEOREM GuardIsSound ==
    ASSUME RequestsDoNotWrap
    PROVE  Spec => []GuardSound
  BY SoundInvariant, PTL DEF SoundInv

\* An invalidation demotes only chunks that own a word of the request, so an
\* invalidation elsewhere costs no native coverage (the demotion loop).
THEOREM OnlyTouchedAreDemoted ==
    ASSUME RequestsDoNotWrap
    PROVE  Spec => OnlyTouchedDemoted
  <1>1. SoundInv /\ [Next]_vars
          => [\A c \in Chunks : phase = "demote" /\ chunkState'[c] # chunkState[c]
                 => c \in Touched(job.from, job.total)]_vars
    <2> SUFFICES ASSUME SoundInv, Next, NEW c \in Chunks,
                        phase = "demote", chunkState'[c] # chunkState[c]
                 PROVE  c \in Touched(job.from, job.total)
      OBVIOUS
    <2>1. Demote \/ DemoteDone
      BY DEF Next, Step, LoadModule, Shutdown, EnterRun, BeginSlice, ChangeTitle, ClearCache,
             DispatchableAt, Store, InvalidatingCacheOp, NativeDataCacheOp, InvalidateICache,
             SplitPage, Search, SearchDone, Finish
    <2>2. Demote
      BY <2>1 DEF DemoteDone, guardVars
    <2>3. c = job.lo
      BY <2>2 DEF Demote, SoundInv, TypeOK
    <2> QED
      BY <2>2, <2>3, DemotedIsTouched DEF SoundInv
  <1> QED
    BY <1>1, SoundInvariant, PTL DEF Spec, OnlyTouchedDemoted

-----------------------------------------------------------------------------
(* SmcGuard implements CodeTrust.                                          *)

\* A word lies in at most one chunk.
LEMMA WordsDisjoint ==
    ASSUME NEW c \in Chunks, NEW d \in Chunks, NEW w \in Words(c), w \in Words(d)
    PROVE  c = d
  BY ChunkFacts DEF Words, Addr

\* Every step of the detailed guard is a step of the promise, or none.
LEMMA TrustStep ==
    ASSUME SoundInv, Next
    PROVE  CT!TrustNext \/ UNCHANGED CT!trustVars
  <1>0. chunkState \in [Chunks -> State] /\ active \in BOOLEAN
    BY DEF SoundInv, TypeOK, State
  <1>1. ASSUME NEW m \in Candidate, LoadModule(m) PROVE CT!Reset \/ UNCHANGED CT!trustVars
    <2>1. unseen = {}
      BY <1>1 DEF LoadModule, SoundInv, LoopInv, OffClean
    <2> QED
      BY <1>1, <2>1 DEF LoadModule, CT!Reset, CT!trustVars, Differs, histVars
  <1>2. ASSUME Shutdown \/ ClearCache PROVE CT!Reset
    BY <1>0, <1>2 DEF Shutdown, ClearCache, CT!Reset, Differs, coreVars
  <1>3. ASSUME EnterRun \/ BeginSlice PROVE CT!Arm
    BY <1>3 DEF EnterRun, BeginSlice, ActiveNow, CT!Arm, Differs, guardVars, histVars
  <1>4. ASSUME NEW a \in Addr, DispatchableAt(a)
        PROVE  (\E c \in Chunks : CT!Check(c)) \/ UNCHANGED CT!trustVars
    <2> DEFINE c == ChunkIndexOf(a)
    <2>1. CASE c # NoChunk /\ chunkState[c] = "unverified"
      <3>1. c \in Chunks /\ active
        BY <2>1, ChunkIndexOfType
      <3>2. VerifyChunk(c) /\ UNCHANGED <<active, patched, unseen>>
        BY <1>4, <2>1 DEF DispatchableAt, coreVars, histVars
      <3> HIDE DEF c
      <3>3. CT!Check(c)
        BY <2>1, <3>1, <3>2 DEF VerifyChunk, CT!Check, CT!Judgement, Differs
      <3> QED
        BY <3>1, <3>3
    <2>2. CASE ~(c # NoChunk /\ chunkState[c] = "unverified")
      BY <1>4, <2>2 DEF DispatchableAt, CT!trustVars, Differs, guardVars, coreVars, histVars
    <2> QED
      BY <2>1, <2>2
  <1>5. ASSUME NEW w \in Writable, Store(w)
        PROVE  (\E c \in Chunks : CT!Write(c)) \/ UNCHANGED CT!trustVars
    <2>1. CASE \E c \in Chunks : w \in Words(c)
      <3>1. PICK c \in Chunks : w \in Words(c)
        BY <2>1
      <3>2. {d \in Chunks : w \in Words(d)} = {c}
        BY <3>1, WordsDisjoint
      <3>3. Differs' \in {Differs \cup {c}, Differs \ {c}}
        <4>1. \A d \in Chunks : d # c => w \notin Words(d)
          BY <3>1, WordsDisjoint
        <4>2. \A d \in Chunks : d # c => (d \in Differs' <=> d \in Differs)
          BY <1>5, <4>1 DEF Store, Differs
        <4> QED
          BY <3>1, <4>2 DEF Differs
      <3>4. CT!Write(c)
        BY <1>5, <3>2, <3>3 DEF Store, CT!Write, guardVars, coreVars
      <3> QED
        BY <3>4
    <2>2. CASE ~ \E c \in Chunks : w \in Words(c)
      <3>1. {d \in Chunks : w \in Words(d)} = {}
        BY <2>2
      <3>2. Differs' = Differs
        BY <1>5, <2>2 DEF Store, Differs
      <3> QED
        BY <1>5, <3>1, <3>2 DEF Store, CT!trustVars, guardVars, coreVars
    <2> QED
      BY <2>1, <2>2
  <1>6. ASSUME Demote PROVE \E c \in Chunks : CT!Forget(c)
    <2>1. job.lo \in Chunks /\ active
      BY <1>6, ChunkFacts DEF Demote, Demoting, SoundInv, TypeOK, LoopInv, PieceInRange, Chunks
    <2> QED
      BY <1>6, <2>1 DEF Demote, CT!Forget, Differs, coreVars, histVars
  <1>7. ASSUME Finish PROVE (\E S \in SUBSET Chunks : CT!Invalidate(S)) \/ UNCHANGED CT!trustVars
    <2>1. UNCHANGED <<active, chunkState, patched>>
      BY <1>7 DEF Finish, coreVars, guardVars
    <2>2. CASE active
      <3> DEFINE S == Touched(job.from, job.total)
      <3>1. S \in SUBSET Chunks /\ \A c \in S : chunkState[c] = "unverified"
        BY <1>7, <2>2, TouchedForgotten DEF SoundInv
      <3>2. unseen' = unseen \ S
        BY <1>7, <2>2 DEF Finish
      <3> HIDE DEF S
      <3>3. chunkState' = [c \in Chunks |-> IF c \in S THEN "unverified" ELSE chunkState[c]]
        BY <1>0, <2>1, <3>1
      <3>4. CT!Invalidate(S)
        BY <2>1, <2>2, <3>2, <3>3 DEF CT!Invalidate, Differs
      <3> QED
        BY <3>1, <3>4
    <2>3. CASE ~active
      BY <1>7, <2>1, <2>3 DEF Finish, CT!trustVars, Differs
    <2> QED
      BY <2>2, <2>3
  <1>8. ASSUME \/ \E t \in Title \cup {NoTitle} : ChangeTitle(t)
               \/ \E ea \in ReqAddr : InvalidatingCacheOp(ea) \/ NativeDataCacheOp(ea)
               \/ \E a \in ReqAddr, n \in ReqLen : InvalidateICache(a, n)
               \/ SplitPage \/ Search \/ SearchDone \/ DemoteDone
        PROVE  UNCHANGED CT!trustVars
    <2>1. UNCHANGED <<active, chunkState, patched, unseen>>
      BY <1>8
      DEF ChangeTitle, InvalidatingCacheOp, NativeDataCacheOp, InvalidateICache, SplitPage,
          Search, SearchDone, DemoteDone, coreVars, guardVars, histVars
    <2> QED
      BY <2>1 DEF CT!trustVars, Differs
  <1> QED
    BY <1>1, <1>2, <1>3, <1>4, <1>5, <1>6, <1>7, <1>8 DEF Next, Step, CT!TrustNext

\* The address-level guard keeps the promise the run loop relies on: under the
\* mapping of a chunk to its m_chunk_state entry every behaviour of SmcGuard is a
\* behaviour of CodeTrust.
THEOREM GuardKeepsTrust ==
    ASSUME RequestsDoNotWrap
    PROVE  Spec => KeepsTrust
  <1>1. Init => CT!TrustInit
    BY DEF Init, CT!TrustInit, Differs
  <1>2. SoundInv /\ [Next]_vars => [CT!TrustNext]_(CT!trustVars)
    <2> SUFFICES ASSUME SoundInv, [Next]_vars
                 PROVE  CT!TrustNext \/ UNCHANGED CT!trustVars
      OBVIOUS
    <2>1. CASE UNCHANGED vars
      BY <2>1 DEF vars, coreVars, guardVars, histVars, CT!trustVars, Differs
    <2> QED
      BY <2>1, TrustStep
  <1> QED
    BY <1>1, <1>2, SoundInvariant, PTL DEF Spec, KeepsTrust, CT!TrustSpec
=============================================================================
