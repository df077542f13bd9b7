----------------------- MODULE EnvelopeCrypto_proofs -----------------------
(***************************************************************************)
(* Envelopes stay readable and keys do not outlive their calls, for any    *)
(* number of overlapping calls, with KMS and without.  The point is that a *)
(* slice has one owner: zeroing it reaches nobody else.                    *)
(***************************************************************************)
EXTENDS EnvelopeCrypto, TLAPS

-----------------------------------------------------------------------------
(* The heap.                                                               *)

LEMMA WrapTypes ==
  ASSUME NEW s \in Slice
  PROVE  /\ Wrapped(s) \in Slice /\ Unwrapped(s) \in Slice
         /\ \A k \in Calls : s = Clear(k) => Wrapped(s) = [form |-> "wrapped", key |-> k]
         /\ \A k \in Calls : s = [form |-> "wrapped", key |-> k] => Unwrapped(s) = Clear(k)
BY DEF Slice, Wrapped, Unwrapped, Clear

\* ZeroBytes reaches the slice it is given and no other.
LEMMA ZeroingOne ==
  ASSUME NEW heap \in Seq(Slice), NEW ref \in 0 .. Len(heap)
  PROVE  /\ Zeroed(heap, ref) \in Seq(Slice)
         /\ Len(Zeroed(heap, ref)) = Len(heap)
         /\ \A r \in 1 .. Len(heap) : r # ref => Zeroed(heap, ref)[r] = heap[r]
         /\ ref # 0 => Zeroed(heap, ref)[ref].form = "zeros"
<1>1. CASE ref = 0
  BY <1>1 DEF Zeroed
<1>2. CASE ref # 0
  <2>1. ref \in 1 .. Len(heap) /\ heap[ref] \in Slice
    BY <1>2
  <2>2. [heap[ref] EXCEPT !.form = "zeros"] \in Slice
    BY <2>1 DEF Slice
  <2> QED
    BY <1>2, <2>1, <2>2 DEF Zeroed, Slice
<1> QED
  BY <1>1, <1>2

LEMMA Appending ==
  ASSUME NEW heap \in Seq(Slice), NEW s \in Slice
  PROVE  /\ Append(heap, s) \in Seq(Slice)
         /\ Len(Append(heap, s)) = Len(heap) + 1
         /\ \A r \in 1 .. Len(heap) : Append(heap, s)[r] = heap[r]
         /\ Append(heap, s)[Len(heap) + 1] = s
OBVIOUS

-----------------------------------------------------------------------------
\* What a step of one call leaves to the others: its slices, and every envelope
\* that is complete.
Leaves(d) ==
  /\ UNCHANGED <<kms, at[d], source[d], dek[d], resp[d], envelope[d], answer[d]>>
  /\ \A ref \in {dek[d], resp[d], envelope[d].dek} \ {0} : mem'[ref] = mem[ref]

Keeps(e) == envelope[e].dek # 0 => envelope'[e].dek # 0

LEMMA OthersKeep ==
  ASSUME NEW d \in Calls, Has(d), Opens(d), Leaves(d), \A e \in Calls : Keeps(e)
  PROVE  Has(d)' /\ Opens(d)'
BY DEF Has, Opens, Leaves, Keeps, Reads, Clear

LEMMA CryptoInvInit == CryptoInit => CryptoInv
BY CryptoAssumption
DEF CryptoInit, CryptoInv, CryptoTypeOK, Has, Opens, Apart, None, Slice

-----------------------------------------------------------------------------
(* Steps.  A new slice has no owner yet.                                   *)

LEMMA ApartStays ==
  ASSUME CryptoTypeOK, \A c, d \in Calls : Apart(c, d),
         NEW c \in Calls,
         \/ /\ dek' = [dek EXCEPT ![c] = Fresh]
            /\ UNCHANGED <<resp, envelope>>
         \/ /\ resp' = [resp EXCEPT ![c] = Fresh]
            /\ UNCHANGED <<dek, envelope>>
         \/ /\ envelope' = [envelope EXCEPT ![c].dek = Fresh]
            /\ UNCHANGED <<dek, resp>>
         \/ /\ UNCHANGED <<dek, resp>>
            /\ \A d \in Calls : envelope'[d].dek = envelope[d].dek
  PROVE  \A d, e \in Calls : Apart(d, e)'
<1> SUFFICES ASSUME NEW d \in Calls, NEW e \in Calls PROVE Apart(d, e)'
  OBVIOUS
<1> USE DEF Fresh, CryptoTypeOK, Apart
<1>0. /\ Len(mem) \in Nat
      /\ dek[d] \in 0 .. Len(mem) /\ resp[d] \in 0 .. Len(mem) /\ envelope[d].dek \in 0 .. Len(mem)
      /\ dek[e] \in 0 .. Len(mem) /\ resp[e] \in 0 .. Len(mem) /\ envelope[e].dek \in 0 .. Len(mem)
  OBVIOUS
<1>1. CASE dek' = [dek EXCEPT ![c] = Fresh] /\ UNCHANGED <<resp, envelope>>
  BY <1>0, <1>1
<1>2. CASE resp' = [resp EXCEPT ![c] = Fresh] /\ UNCHANGED <<dek, envelope>>
  BY <1>0, <1>2
<1>3. CASE envelope' = [envelope EXCEPT ![c].dek = Fresh] /\ UNCHANGED <<dek, resp>>
  <2>1. envelope'[d].dek \in {envelope[d].dek, Fresh} /\ envelope'[e].dek \in {envelope[e].dek, Fresh}
    BY <1>3
  <2> QED
    BY <1>0, <1>3, <2>1
<1>4. CASE UNCHANGED <<dek, resp>> /\ \A f \in Calls : envelope'[f].dek = envelope[f].dek
  BY <1>4
<1> QED
  BY <1>1, <1>2, <1>3, <1>4

\* A step of c that does its own part and leaves the others theirs.
LEMMA Combine ==
  ASSUME CryptoInv, NEW c \in Calls,
         CryptoTypeOK', Has(c)' /\ Opens(c)',
         \A d \in Calls \ {c} : Leaves(d),
         Keeps(c),
         \A d, e \in Calls : Apart(d, e)'
  PROVE  CryptoInv'
<1>1. \A e \in Calls : Keeps(e)
  BY DEF Leaves, Keeps
<1>2. ASSUME NEW d \in Calls \ {c} PROVE Has(d)' /\ Opens(d)'
  BY <1>1, <1>2, OthersKeep DEF CryptoInv
<1> QED
  BY <1>2 DEF CryptoInv

LEMMA GenerateDekStep ==
  ASSUME CryptoInv, NEW c \in Calls, GenerateDek(c) PROVE CryptoInv'
<1> DEFINE s == Clear(c)
<1>1. s \in Slice /\ mem' = Append(mem, s)
  BY DEF GenerateDek, Slice, Clear
<1>2. /\ mem' \in Seq(Slice) /\ Len(mem') = Len(mem) + 1
      /\ \A r \in 1 .. Len(mem) : mem'[r] = mem[r]
      /\ mem'[Fresh] = s
  BY <1>1, Appending DEF CryptoInv, CryptoTypeOK, Fresh
<1> HIDE DEF s
<1>3. CryptoTypeOK'
  BY <1>2 DEF CryptoInv, CryptoTypeOK, GenerateDek, Goto, Fresh
<1>4. Has(c)' /\ Opens(c)'
  <2>1. /\ at'[c] = "made" /\ dek'[c] = Fresh /\ Fresh # 0
        /\ resp'[c] = 0 /\ envelope'[c].dek = 0 /\ answer'[c] = answer[c]
        /\ answer[c] # "garbled"
    BY DEF CryptoInv, CryptoTypeOK, GenerateDek, Goto, Fresh, Has
  <2> QED
    BY <1>2, <2>1 DEF Has, Opens, s
<1>5. \A d \in Calls \ {c} : Leaves(d)
  BY <1>2 DEF CryptoInv, CryptoTypeOK, GenerateDek, Goto, Leaves
<1>6. Keeps(c)
  BY DEF GenerateDek, Keeps
<1>7. \A d, e \in Calls : Apart(d, e)'
  BY ApartStays DEF GenerateDek, CryptoInv
<1> QED
  BY <1>3, <1>4, <1>5, <1>6, <1>7, Combine

LEMMA SealTokenStep ==
  ASSUME CryptoInv, NEW c \in Calls, SealToken(c) PROVE CryptoInv'
<1>1. /\ at[c] = "made" /\ at'[c] = "sealed"
      /\ dek[c] \in 1 .. Len(mem) /\ mem[dek[c]] = Clear(c)
      /\ envelope'[c].dek = envelope[c].dek
      /\ envelope'[c].sealed = c
  <2>1. /\ at[c] = "made" /\ Has(c)
        /\ Len(mem) \in Nat /\ dek[c] \in 0 .. Len(mem)
    BY DEF CryptoInv, CryptoTypeOK, SealToken
  <2>2. dek[c] \in 1 .. Len(mem) /\ mem[dek[c]] = Clear(c)
    BY <2>1 DEF Has
  <2>3. mem[dek[c]].key = c
    BY <2>2 DEF Clear
  <2> QED
    BY <2>1, <2>2, <2>3 DEF CryptoInv, CryptoTypeOK, SealToken, Goto
<1>2. \A d \in Calls : envelope'[d].dek = envelope[d].dek
  BY DEF CryptoInv, CryptoTypeOK, SealToken
<1>3. CryptoTypeOK'
  <2>1. mem[dek[c]].key \in Calls
    BY <1>1 DEF Clear
  <2> QED
    BY <2>1 DEF CryptoInv, CryptoTypeOK, SealToken, Goto, slices
<1>4. Has(c)' /\ Opens(c)'
  BY <1>1 DEF CryptoInv, SealToken, Has, Opens, slices
<1>5. \A d \in Calls \ {c} : Leaves(d)
  BY DEF CryptoInv, CryptoTypeOK, SealToken, Goto, Leaves, slices
<1>6. Keeps(c)
  BY <1>1 DEF Keeps
<1>7. \A d, e \in Calls : Apart(d, e)'
  BY <1>2, ApartStays DEF SealToken, slices, CryptoInv
<1> QED
  BY <1>3, <1>4, <1>5, <1>6, <1>7, Combine

\* What a call that returns does to the heap it has: the dek is zeroed, and
\* every other slice stays.
LEMMA Returning ==
  ASSUME CryptoInv, NEW c \in Calls, NEW a \in {"ok", "failed"}, NEW heap \in Seq(Slice),
         Len(mem) <= Len(heap), \A r \in 1 .. Len(mem) : heap[r] = mem[r],
         Return(c, a, heap), UNCHANGED <<kms, dek, resp>>
  PROVE  /\ mem' \in Seq(Slice) /\ Len(mem') = Len(heap)
         /\ \A r \in 1 .. Len(heap) : r # dek[c] => mem'[r] = heap[r]
         /\ dek[c] # 0 => mem'[dek[c]].form = "zeros"
         /\ at' = [at EXCEPT ![c] = "done"] /\ answer' = [answer EXCEPT ![c] = a]
<1>1. Len(mem) \in Nat /\ dek[c] \in 0 .. Len(mem)
  BY DEF CryptoInv, CryptoTypeOK
<1>2. dek[c] \in 0 .. Len(heap)
  BY <1>1
<1> QED
  BY <1>2, ZeroingOne DEF Return, Goto

LEMMA EncryptFailsStep ==
  ASSUME CryptoInv, NEW c \in Calls, EncryptFails(c) PROVE CryptoInv'
<1>1. /\ mem' \in Seq(Slice) /\ Len(mem') = Len(mem)
      /\ \A r \in 1 .. Len(mem) : r # dek[c] => mem'[r] = mem[r]
      /\ dek[c] # 0 => mem'[dek[c]].form = "zeros"
      /\ at' = [at EXCEPT ![c] = "done"] /\ answer' = [answer EXCEPT ![c] = "failed"]
  BY Returning DEF EncryptFails, CryptoInv, CryptoTypeOK
<1>2. at[c] \in {"start", "made", "sealed"} /\ UNCHANGED <<kms, source, dek, resp, envelope>>
  BY DEF EncryptFails
<1>3. CryptoTypeOK'
  BY <1>1, <1>2 DEF CryptoInv, CryptoTypeOK
<1>4. Has(c)' /\ Opens(c)'
  <2>1. at'[c] = "done" /\ answer'[c] = "failed" /\ resp[c] = 0 /\ envelope[c].dek = 0
    BY <1>1, <1>2 DEF CryptoInv, CryptoTypeOK, Has
  <2> QED
    BY <1>1, <1>2, <2>1 DEF Has, Opens
<1>5. \A d \in Calls \ {c} : Leaves(d)
  BY <1>1, <1>2 DEF CryptoInv, CryptoTypeOK, Apart, Leaves
<1>6. Keeps(c)
  BY <1>2 DEF Keeps
<1>7. \A d, e \in Calls : Apart(d, e)'
  BY <1>2, ApartStays DEF CryptoInv
<1> QED
  BY <1>3, <1>4, <1>5, <1>6, <1>7, Combine

LEMMA WrapDekStep ==
  ASSUME CryptoInv, NEW c \in Calls, WrapDek(c) PROVE CryptoInv'
<1> DEFINE s == Wrapped(mem[dek[c]])
<1>0. /\ dek[c] \in 1 .. Len(mem) /\ mem[dek[c]] \in Slice /\ mem[dek[c]] = Clear(c)
      /\ resp[c] = 0 /\ envelope[c].sealed = c /\ envelope[c].dek = 0 /\ at[c] = "sealed"
  BY DEF WrapDek, CryptoInv, CryptoTypeOK, Has
<1>1. s \in Slice /\ s = [form |-> "wrapped", key |-> c]
  BY <1>0, WrapTypes
<1> HIDE DEF s
<1>2. /\ mem' \in Seq(Slice) /\ Len(mem') = Len(mem) + 1
      /\ \A r \in 1 .. Len(mem) : r # dek[c] => mem'[r] = mem[r]
      /\ mem'[Fresh] = s /\ Fresh # 0
      /\ mem'[dek[c]].form = "zeros"
      /\ at' = [at EXCEPT ![c] = "done"] /\ answer' = [answer EXCEPT ![c] = "ok"]
  <2>1. mem \in Seq(Slice) /\ Len(mem) \in Nat
    BY DEF CryptoInv, CryptoTypeOK
  <2>2. /\ Append(mem, s) \in Seq(Slice) /\ Len(Append(mem, s)) = Len(mem) + 1
        /\ \A r \in 1 .. Len(mem) : Append(mem, s)[r] = mem[r]
        /\ Append(mem, s)[Len(mem) + 1] = s
    BY <1>1, <2>1, Appending
  <2>3. Return(c, "ok", Append(mem, s)) /\ UNCHANGED <<kms, dek, resp>>
    BY DEF WrapDek, s
  <2> DEFINE heap == Append(mem, s)
  <2> HIDE DEF heap
  <2>4. /\ heap \in Seq(Slice) /\ Len(heap) = Len(mem) + 1
        /\ \A r \in 1 .. Len(mem) : heap[r] = mem[r]
        /\ heap[Len(mem) + 1] = s
        /\ Return(c, "ok", heap)
    BY <2>2, <2>3 DEF heap
  <2>5. Len(mem) <= Len(heap)
    BY <2>1, <2>4
  <2>6. /\ mem' \in Seq(Slice) /\ Len(mem') = Len(heap)
        /\ \A r \in 1 .. Len(heap) : r # dek[c] => mem'[r] = heap[r]
        /\ dek[c] # 0 => mem'[dek[c]].form = "zeros"
        /\ at' = [at EXCEPT ![c] = "done"] /\ answer' = [answer EXCEPT ![c] = "ok"]
    BY <2>3, <2>4, <2>5, Returning
  <2> QED
    BY <1>0, <2>1, <2>4, <2>6 DEF Fresh
<1>a. /\ UNCHANGED <<kms, source, dek, resp>>
      /\ envelope' = [envelope EXCEPT ![c].dek = Fresh]
      /\ envelope'[c].dek = Fresh /\ envelope'[c].sealed = c
  BY <1>0 DEF WrapDek, CryptoInv, CryptoTypeOK
<1>3. CryptoTypeOK'
  <2>1. /\ Len(mem) \in Nat /\ 0 .. Len(mem) \subseteq 0 .. Len(mem')
        /\ Fresh \in 0 .. Len(mem')
    BY <1>2 DEF CryptoInv, CryptoTypeOK, Fresh
  <2> HIDE DEF Fresh
  <2>2. /\ envelope' \in [Calls -> [sealed : Calls \union {0}, dek : 0 .. Len(mem')]]
        /\ dek' \in [Calls -> 0 .. Len(mem')] /\ resp' \in [Calls -> 0 .. Len(mem')]
    BY <1>a, <2>1 DEF CryptoInv, CryptoTypeOK
  <2>3. answer' \in [Calls -> {"none", "ok", "failed", "garbled"}]
    BY <1>2 DEF CryptoInv, CryptoTypeOK
  <2> QED
    BY <1>2, <1>a, <2>2, <2>3 DEF CryptoInv, CryptoTypeOK
<1>4. Has(c)' /\ Opens(c)'
  <2>1. at'[c] = "done" /\ answer'[c] = "ok"
    BY <1>2 DEF CryptoInv, CryptoTypeOK
  <2> QED
    BY <1>0, <1>1, <1>2, <1>a, <2>1 DEF Has, Opens
<1>5. \A d \in Calls \ {c} : Leaves(d)
  BY <1>2, <1>a DEF CryptoInv, CryptoTypeOK, Apart, Leaves
<1>6. Keeps(c)
  BY <1>0 DEF Keeps
<1>7. \A d, e \in Calls : Apart(d, e)'
  BY <1>a, ApartStays DEF CryptoInv
<1> QED
  BY <1>3, <1>4, <1>5, <1>6, <1>7, Combine

LEMMA AskStep ==
  ASSUME CryptoInv, NEW c \in Calls, NEW e \in Calls, Ask(c, e) PROVE CryptoInv'
<1>0. /\ at[c] = "start" /\ dek[c] = 0 /\ resp[c] = 0 /\ envelope[c].dek = 0
      /\ envelope[e].dek \in 1 .. Len(mem) /\ mem[envelope[e].dek] \in Slice
      /\ mem[envelope[e].dek] = [form |-> "wrapped", key |-> e]
  <2>1. at[c] = "start" /\ envelope[e].dek # 0
    BY DEF Ask, Envelopes
  <2>2. mem \in Seq(Slice) /\ Len(mem) \in Nat /\ envelope[e].dek \in 0 .. Len(mem)
    BY DEF CryptoInv, CryptoTypeOK
  <2>3. envelope[e].dek \in 1 .. Len(mem) /\ mem[envelope[e].dek] \in Slice
    BY <2>1, <2>2
  <2>4. mem[envelope[e].dek] = [form |-> "wrapped", key |-> e]
    BY <2>1 DEF CryptoInv, Opens
  <2> QED
    BY <2>1, <2>3, <2>4 DEF CryptoInv, Has
<1> DEFINE s == Unwrapped(mem[envelope[e].dek])
<1>1. s \in Slice /\ s = Clear(e)
  BY <1>0, WrapTypes
<1>a. /\ UNCHANGED <<kms, dek, envelope, answer>>
      /\ at' = [at EXCEPT ![c] = "asked"] /\ source' = [source EXCEPT ![c] = e]
      /\ kms => mem' = Append(mem, s) /\ resp' = [resp EXCEPT ![c] = Fresh]
      /\ ~kms => UNCHANGED <<mem, resp>>
  BY DEF Ask, Goto
<1> HIDE DEF s
<1>2. /\ mem' \in Seq(Slice) /\ Len(mem) <= Len(mem')
      /\ \A r \in 1 .. Len(mem) : mem'[r] = mem[r]
      /\ kms => Fresh \in 1 .. Len(mem') /\ mem'[Fresh] = s
  <2>1. mem \in Seq(Slice) /\ Len(mem) \in Nat /\ kms \in BOOLEAN
    BY DEF CryptoInv, CryptoTypeOK
  <2>2. CASE kms
    <3>1. mem' = Append(mem, s)
      BY <1>a, <2>2
    <3>2. /\ Append(mem, s) \in Seq(Slice) /\ Len(Append(mem, s)) = Len(mem) + 1
          /\ \A r \in 1 .. Len(mem) : Append(mem, s)[r] = mem[r]
          /\ Append(mem, s)[Len(mem) + 1] = s
      BY <1>1, <2>1, Appending
    <3> QED
      BY <2>1, <3>1, <3>2 DEF Fresh
  <2>3. CASE ~kms
    BY <1>a, <2>1, <2>3
  <2> QED
    BY <2>1, <2>2, <2>3
<1>b. resp'[c] = IF kms THEN Fresh ELSE 0
  BY <1>0, <1>a DEF CryptoInv, CryptoTypeOK
<1>3. CryptoTypeOK'
  <2>1. Len(mem) \in Nat /\ Len(mem') \in Nat /\ 0 .. Len(mem) \subseteq 0 .. Len(mem')
    BY <1>2 DEF CryptoInv, CryptoTypeOK
  <2>2. /\ envelope' \in [Calls -> [sealed : Calls \union {0}, dek : 0 .. Len(mem')]]
        /\ dek' \in [Calls -> 0 .. Len(mem')]
    BY <1>a, <2>1 DEF CryptoInv, CryptoTypeOK
  <2>3. resp' \in [Calls -> 0 .. Len(mem')]
    BY <1>a, <1>2, <2>1 DEF CryptoInv, CryptoTypeOK
  <2>4. /\ answer' \in [Calls -> {"none", "ok", "failed", "garbled"}]
        /\ source' \in [Calls -> Calls \union {0}]
        /\ at' \in [Calls -> {"start", "made", "sealed", "asked", "open", "done"}]
    BY <1>a DEF CryptoInv, CryptoTypeOK
  <2> QED
    BY <1>2, <1>a, <2>2, <2>3, <2>4 DEF CryptoInv, CryptoTypeOK
<1>4. Has(c)' /\ Opens(c)'
  <2>1. at'[c] = "asked" /\ source'[c] = e /\ envelope'[e].dek # 0 /\ dek'[c] = 0
    BY <1>0, <1>a DEF CryptoInv, CryptoTypeOK
  <2>2. Reads(c)'
    BY <2>1 DEF Reads
  <2>3. IF kms' THEN resp'[c] # 0 /\ mem'[resp'[c]] = Clear(source'[c]) ELSE resp'[c] = 0
    BY <1>1, <1>2, <1>a, <1>b, <2>1 DEF CryptoInv, CryptoTypeOK
  <2>4. envelope'[c].dek = 0 /\ answer'[c] # "garbled"
    BY <1>0, <1>a DEF CryptoInv, Has
  <2> QED
    BY <2>1, <2>2, <2>3, <2>4 DEF Has, Opens, Clear
<1>5. \A d \in Calls \ {c} : Leaves(d)
  BY <1>2, <1>a DEF CryptoInv, CryptoTypeOK, Leaves
<1>6. Keeps(c)
  BY <1>0 DEF Keeps
<1>7. \A d, f \in Calls : Apart(d, f)'
  BY <1>a, ApartStays DEF CryptoInv
<1> QED
  BY <1>3, <1>4, <1>5, <1>6, <1>7, Combine

LEMMA AskFailsStep ==
  ASSUME CryptoInv, NEW c \in Calls, NEW e \in Calls, AskFails(c, e) PROVE CryptoInv'
<1>0. at[c] = "start" /\ dek[c] = 0 /\ resp[c] = 0 /\ envelope[c].dek = 0
  BY DEF AskFails, CryptoInv, Has
<1>1. /\ UNCHANGED <<kms, mem, dek, resp, envelope>>
      /\ at' = [at EXCEPT ![c] = "done"] /\ source' = [source EXCEPT ![c] = e]
      /\ answer' = [answer EXCEPT ![c] = "failed"]
  BY <1>0 DEF AskFails, Return, Zeroed, Goto
<1>3. CryptoTypeOK'
  BY <1>1 DEF CryptoInv, CryptoTypeOK
<1>4. Has(c)' /\ Opens(c)'
  BY <1>0, <1>1 DEF CryptoInv, CryptoTypeOK, Has, Opens
<1>5. \A d \in Calls \ {c} : Leaves(d)
  BY <1>1 DEF CryptoInv, CryptoTypeOK, Leaves
<1>6. Keeps(c)
  BY <1>0 DEF Keeps
<1>7. \A d, f \in Calls : Apart(d, f)'
  BY <1>1, ApartStays DEF CryptoInv
<1> QED
  BY <1>3, <1>4, <1>5, <1>6, <1>7, Combine

LEMMA OpenTokenStep ==
  ASSUME CryptoInv, NEW c \in Calls, OpenToken(c) PROVE CryptoInv'
<1>0. /\ at[c] = "open" /\ Reads(c) /\ dek[c] # 0 /\ mem[dek[c]] = Clear(source[c])
      /\ envelope[c].dek = 0
      /\ resp[c] # 0 => mem[resp[c]].form = "zeros"
  BY DEF OpenToken, CryptoInv, Has
<1>1. Fits(c)
  BY <1>0 DEF Fits, Reads, CryptoInv, Opens, Clear
<1>2. /\ mem' \in Seq(Slice) /\ Len(mem') = Len(mem)
      /\ \A r \in 1 .. Len(mem) : r # dek[c] => mem'[r] = mem[r]
      /\ dek[c] # 0 => mem'[dek[c]].form = "zeros"
      /\ at' = [at EXCEPT ![c] = "done"] /\ answer' = [answer EXCEPT ![c] = "ok"]
  BY <1>1, Returning DEF OpenToken, CryptoInv, CryptoTypeOK
<1>a. UNCHANGED <<kms, source, dek, resp, envelope>>
  BY DEF OpenToken
<1>3. CryptoTypeOK'
  BY <1>2, <1>a DEF CryptoInv, CryptoTypeOK
<1>4. Has(c)' /\ Opens(c)'
  <2>1. at'[c] = "done" /\ answer'[c] = "ok"
    BY <1>2 DEF CryptoInv, CryptoTypeOK
  <2>2. resp[c] # 0 => mem'[resp[c]].form = "zeros"
    <3>1. Len(mem) \in Nat /\ resp[c] \in 0 .. Len(mem) /\ resp[c] # dek[c]
      BY <1>0 DEF CryptoInv, CryptoTypeOK, Apart
    <3> QED
      BY <1>0, <1>2, <3>1
  <2> QED
    BY <1>0, <1>2, <1>a, <2>1, <2>2 DEF Has, Opens
<1>5. \A d \in Calls \ {c} : Leaves(d)
  BY <1>2, <1>a DEF CryptoInv, CryptoTypeOK, Apart, Leaves
<1>6. Keeps(c)
  BY <1>a DEF Keeps
<1>7. \A d, f \in Calls : Apart(d, f)'
  BY <1>a, ApartStays DEF CryptoInv
<1> QED
  BY <1>3, <1>4, <1>5, <1>6, <1>7, Combine

LEMMA CopyDekStep ==
  ASSUME CryptoInv, NEW c \in Calls, CopyDek(c) PROVE CryptoInv'
<1>0. /\ at[c] = "asked" /\ Reads(c) /\ dek[c] = 0 /\ envelope[c].dek = 0
      /\ IF kms THEN resp[c] # 0 /\ mem[resp[c]] = Clear(source[c]) ELSE resp[c] = 0
      /\ answer[c] # "garbled" /\ kms \in BOOLEAN
      /\ mem \in Seq(Slice) /\ Len(mem) \in Nat /\ resp[c] \in 0 .. Len(mem)
  BY DEF CopyDek, CryptoInv, CryptoTypeOK, Has
<1>1. /\ mem' \in Seq(Slice) /\ Len(mem') = Len(mem) + 1
      /\ mem'[Fresh] = Clear(source[c])
      /\ \A r \in 1 .. Len(mem) : r # resp[c] => mem'[r] = mem[r]
      /\ resp[c] # 0 => mem'[resp[c]].form = "zeros"
  <2>1. CASE kms
    <3> DEFINE s == mem[resp[c]]
               heap == Append(mem, s)
    <3>1. s \in Slice /\ s = Clear(source[c])
      BY <1>0, <2>1
    <3>2. mem' = Zeroed(heap, resp[c])
      BY <2>1 DEF CopyDek
    <3> HIDE DEF s
    <3>3. /\ heap \in Seq(Slice) /\ Len(heap) = Len(mem) + 1
          /\ \A r \in 1 .. Len(mem) : heap[r] = mem[r]
          /\ heap[Fresh] = s
      BY <1>0, <3>1, Appending DEF Fresh
    <3> HIDE DEF heap
    <3>4. resp[c] \in 0 .. Len(heap)
      BY <1>0, <3>3
    <3>5. /\ mem' \in Seq(Slice) /\ Len(mem') = Len(heap)
          /\ \A r \in 1 .. Len(heap) : r # resp[c] => mem'[r] = heap[r]
          /\ resp[c] # 0 => mem'[resp[c]].form = "zeros"
      BY <3>2, <3>3, <3>4, ZeroingOne
    <3>6. Fresh \in 1 .. Len(heap) /\ Fresh # resp[c]
      BY <1>0, <3>3 DEF Fresh
    <3> QED
      BY <1>0, <3>1, <3>3, <3>5, <3>6
  <2>2. CASE ~kms
    <3> DEFINE s == Unwrapped(mem[envelope[source[c]].dek])
    <3>1. /\ source[c] \in Calls /\ envelope[source[c]].dek \in 1 .. Len(mem)
          /\ mem[envelope[source[c]].dek] \in Slice
          /\ mem[envelope[source[c]].dek] = [form |-> "wrapped", key |-> source[c]]
      BY <1>0 DEF Reads, CryptoInv, CryptoTypeOK, Opens
    <3>2. s \in Slice /\ s = Clear(source[c])
      BY <3>1, WrapTypes
    <3>3. mem' = Append(mem, s)
      BY <2>2 DEF CopyDek
    <3> HIDE DEF s
    <3> QED
      BY <1>0, <2>2, <3>2, <3>3, Appending DEF Fresh
  <2> QED
    BY <1>0, <2>1, <2>2
<1>a. /\ UNCHANGED <<kms, source, resp, envelope, answer>>
      /\ at' = [at EXCEPT ![c] = "open"] /\ dek' = [dek EXCEPT ![c] = Fresh]
      /\ Fresh \in 1 .. Len(mem')
  BY <1>0, <1>1 DEF CopyDek, Goto, Fresh
<1>3. CryptoTypeOK'
  <2>1. Len(mem') \in Nat /\ 0 .. Len(mem) \subseteq 0 .. Len(mem')
    BY <1>0, <1>1
  <2>2. /\ envelope' \in [Calls -> [sealed : Calls \union {0}, dek : 0 .. Len(mem')]]
        /\ resp' \in [Calls -> 0 .. Len(mem')]
    BY <1>a, <2>1 DEF CryptoInv, CryptoTypeOK
  <2>3. dek' \in [Calls -> 0 .. Len(mem')]
    BY <1>a, <2>1 DEF CryptoInv, CryptoTypeOK
  <2>4. at' \in [Calls -> {"start", "made", "sealed", "asked", "open", "done"}]
    BY <1>a DEF CryptoInv, CryptoTypeOK
  <2> QED
    BY <1>1, <1>a, <2>2, <2>3, <2>4 DEF CryptoInv, CryptoTypeOK
<1>4. Has(c)' /\ Opens(c)'
  <2>1. at'[c] = "open" /\ dek'[c] = Fresh /\ Fresh # 0
    BY <1>0, <1>a DEF CryptoInv, CryptoTypeOK, Fresh
  <2>2. Reads(c)'
    BY <1>0, <1>a DEF Reads
  <2> QED
    BY <1>0, <1>1, <1>a, <2>1, <2>2 DEF Has, Opens, Clear
<1>5. \A d \in Calls \ {c} : Leaves(d)
  BY <1>1, <1>a DEF CryptoInv, CryptoTypeOK, Apart, Leaves
<1>6. Keeps(c)
  BY <1>0 DEF Keeps
<1>7. \A d, f \in Calls : Apart(d, f)'
  BY <1>a, ApartStays DEF CryptoInv
<1> QED
  BY <1>3, <1>4, <1>5, <1>6, <1>7, Combine

LEMMA CryptoInvStep == CryptoInv /\ [CryptoNext]_cryptoVars => CryptoInv'
<1> SUFFICES ASSUME CryptoInv, [CryptoNext]_cryptoVars PROVE CryptoInv'
  OBVIOUS
<1>1. CASE CryptoNext
  BY <1>1, GenerateDekStep, SealTokenStep, WrapDekStep, EncryptFailsStep,
     AskStep, AskFailsStep, CopyDekStep, OpenTokenStep DEF CryptoNext
<1>2. CASE UNCHANGED cryptoVars
  BY <1>2 DEF cryptoVars, slices, CryptoInv, CryptoTypeOK, Has, Opens, Apart, Reads
<1> QED
  BY <1>1, <1>2

-----------------------------------------------------------------------------
\* The invariant of the heap holds for every number of calls, with KMS and
\* without, whatever fails.
THEOREM CryptoInvHolds == CryptoSpec => []CryptoInv
BY CryptoInvInit, CryptoInvStep, PTL DEF CryptoSpec

\* DecryptToken fails only if KMS refuses: no ZeroBytes of another call, and none
\* of its own, has reached the envelope or the key it opens it with.
THEOREM CryptoEnvelopeStaysReadable == CryptoSpec => []EnvelopeStaysReadable
<1>1. CryptoInv => EnvelopeStaysReadable
  BY DEF CryptoInv, Has, EnvelopeStaysReadable
<1> QED
  BY <1>1, CryptoInvHolds, PTL

\* EncryptToken and DecryptToken leave no slice with the plaintext key behind,
\* on whichever path they return.
THEOREM CryptoNoKeyOutlivesCall == CryptoSpec => []NoKeyOutlivesCall
<1>1. CryptoInv => NoKeyOutlivesCall
  BY DEF CryptoInv, Has, NoKeyOutlivesCall
<1> QED
  BY <1>1, CryptoInvHolds, PTL
=============================================================================
