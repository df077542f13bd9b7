--------------------------- MODULE EnvelopeCrypto ---------------------------
(***************************************************************************)
(* pkg/crypto: EncryptToken and DecryptToken, seen from the byte slices    *)
(* that hold a data key (DEK).  mem is the heap: two variables may name    *)
(* the same slice, and ZeroBytes on one of them reaches the other.  Calls  *)
(* may overlap, and may fail at any step.  A ciphertext opens under the    *)
(* key it was sealed with and under no other.                              *)
(***************************************************************************)
EXTENDS Naturals, Sequences

CONSTANTS
  Calls,               \* bound: the calls that are made
  Kms                  \* may there be a KMS client, or only the local fallback

ASSUME CryptoAssumption == 0 \notin Calls /\ Kms \subseteq BOOLEAN /\ Kms # {}

VARIABLES
  kms,                 \* is there a client
  mem,                 \* what every slice holds
  at,                  \* per call: how far it is
  source,              \* per call: the call whose envelope it opens, 0 to make one
  dek, resp,           \* per call: its slices dek and kmsResp.Plaintext, or 0
  envelope,            \* per call: the envelope it has made so far
  answer               \* per call: what it returned

slices     == <<mem, dek, resp>>
cryptoVars == <<kms, slices, at, source, envelope, answer>>

\* A slice holds a key, named after the call that made it, in the clear or as
\* KMS or the fallback wraps it, or it holds zeros.
Slice == [form : {"clear", "wrapped", "zeros"}, key : Calls]

CryptoTypeOK ==
  /\ kms \in BOOLEAN
  /\ mem \in Seq(Slice)
  /\ at \in [Calls -> {"start", "made", "sealed", "asked", "open", "done"}]
  /\ source \in [Calls -> Calls \union {0}]
  /\ dek \in [Calls -> 0 .. Len(mem)] /\ resp \in [Calls -> 0 .. Len(mem)]
  /\ envelope \in [Calls -> [sealed : Calls \union {0}, dek : 0 .. Len(mem)]]
  /\ answer \in [Calls -> {"none", "ok", "failed", "garbled"}]

None == [c \in Calls |-> 0]

CryptoInit ==
  /\ kms \in Kms
  /\ mem = <<>>
  /\ at = [c \in Calls |-> "start"]
  /\ source = None /\ dek = None /\ resp = None
  /\ envelope = [c \in Calls |-> [sealed |-> 0, dek |-> 0]]
  /\ answer = [c \in Calls |-> "none"]

Fresh == Len(mem) + 1
Zeroed(heap, ref) == IF ref = 0 THEN heap ELSE [heap EXCEPT ![ref].form = "zeros"]
Wrapped(s) == [s EXCEPT !.form = IF @ = "clear" THEN "wrapped" ELSE @]
Unwrapped(s) == [s EXCEPT !.form = IF @ = "wrapped" THEN "clear" ELSE @]

Goto(c, label) == at' = [at EXCEPT ![c] = label]

\* Mutant: no deferred ZeroBytes on the way out that fails.
ReturnZeroingOnSuccess(c, a, heap) ==
  /\ Goto(c, "done")
  /\ answer' = [answer EXCEPT ![c] = a]
  /\ mem' = IF a = "ok" THEN Zeroed(heap, dek[c]) ELSE heap

\* A call returns; once it has a dek, its deferred ZeroBytes runs.
Return(c, a, heap) ==
  /\ Goto(c, "done")
  /\ answer' = [answer EXCEPT ![c] = a]
  /\ mem' = Zeroed(heap, dek[c])

-----------------------------------------------------------------------------
(* EncryptToken.                                                           *)

\* make and io.ReadFull.
GenerateDek(c) ==
  /\ at[c] = "start"
  /\ Goto(c, "made")
  /\ mem' = Append(mem, [form |-> "clear", key |-> c])
  /\ dek' = [dek EXCEPT ![c] = Fresh]
  /\ UNCHANGED <<kms, source, resp, envelope, answer>>

\* NewCipher, NewGCM, the nonce and Seal.
SealToken(c) ==
  /\ at[c] = "made"
  /\ Goto(c, "sealed")
  /\ envelope' = [envelope EXCEPT ![c].sealed = mem[dek[c]].key]
  /\ UNCHANGED <<kms, slices, source, answer>>

\* KMS answers with a blob of its own, the fallback appends to a new slice.
WrapDek(c) ==
  /\ at[c] = "sealed"
  /\ envelope' = [envelope EXCEPT ![c].dek = Fresh]
  /\ Return(c, "ok", Append(mem, Wrapped(mem[dek[c]])))
  /\ UNCHANGED <<kms, source, dek, resp>>

\* crypto/rand fails, for the key or for the nonce, or KMS does.
EncryptFails(c) ==
  /\ at[c] \in {"start", "made"} \/ (at[c] = "sealed" /\ kms)
  /\ Return(c, "failed", mem)
  /\ UNCHANGED <<kms, source, dek, resp, envelope>>

-----------------------------------------------------------------------------
(* DecryptToken, of an envelope EncryptToken has returned.                 *)

Envelopes == {e \in Calls : envelope[e].dek # 0 /\ answer[e] = "ok"}

Ask(c, e) ==
  /\ at[c] = "start" /\ e \in Envelopes
  /\ source' = [source EXCEPT ![c] = e]
  /\ Goto(c, "asked")
  /\ IF kms
     THEN /\ mem' = Append(mem, Unwrapped(mem[envelope[e].dek]))
          /\ resp' = [resp EXCEPT ![c] = Fresh]
     ELSE UNCHANGED <<mem, resp>>
  /\ UNCHANGED <<kms, dek, envelope, answer>>

\* KMS refuses, before there is a dek to zero.
AskFails(c, e) ==
  /\ at[c] = "start" /\ e \in Envelopes /\ kms
  /\ source' = [source EXCEPT ![c] = e]
  /\ Return(c, "failed", mem)
  /\ UNCHANGED <<kms, dek, resp, envelope>>

\* Mutant: dek is KMS's slice and not a copy of it.
CopyDekShared(c) ==
  /\ at[c] = "asked"
  /\ Goto(c, "open")
  /\ dek' = [dek EXCEPT ![c] = IF kms THEN resp[c] ELSE envelope[source[c]].dek]
  /\ mem' = IF kms THEN Zeroed(mem, resp[c])
            ELSE [mem EXCEPT ![envelope[source[c]].dek].form = "clear"]
  /\ UNCHANGED <<kms, source, resp, envelope, answer>>

\* make and copy; KMS's own slice is zeroed at once.
CopyDek(c) ==
  /\ at[c] = "asked"
  /\ Goto(c, "open")
  /\ dek' = [dek EXCEPT ![c] = Fresh]
  /\ mem' = IF kms THEN Zeroed(Append(mem, mem[resp[c]]), resp[c])
            ELSE Append(mem, Unwrapped(mem[envelope[source[c]].dek]))
  /\ UNCHANGED <<kms, source, resp, envelope, answer>>

Fits(c) == mem[dek[c]] = [form |-> "clear", key |-> envelope[source[c]].sealed]

\* gcm.Open
OpenToken(c) ==
  /\ at[c] = "open"
  /\ Return(c, IF Fits(c) THEN "ok" ELSE "garbled", mem)
  /\ UNCHANGED <<kms, source, dek, resp, envelope>>

-----------------------------------------------------------------------------
CryptoNext ==
  \E c \in Calls :
    \/ GenerateDek(c) \/ SealToken(c) \/ WrapDek(c) \/ EncryptFails(c)
    \/ \E e \in Calls : Ask(c, e) \/ AskFails(c, e)
    \/ CopyDek(c) \/ OpenToken(c)

CryptoSpec == CryptoInit /\ [][CryptoNext]_cryptoVars

-----------------------------------------------------------------------------
(* Properties.                                                             *)

\* An envelope that was returned stays readable: however many calls open it,
\* one after the other or at the same time, and whatever slices are zeroed
\* meanwhile, the only way for DecryptToken to fail is a KMS that refuses.
EnvelopeStaysReadable == \A c \in Calls : answer[c] # "garbled"

\* README, Envelope Cryptography: the plaintext key is zeroed "upon completion".
\* Once a call is over, on whichever path, no slice it had holds its key in the
\* clear; what the envelope of the fallback holds is not counted.
NoKeyOutlivesCall ==
  \A c \in Calls : at[c] = "done" =>
    \A ref \in {dek[c], resp[c]} \ {0} : mem[ref].form = "zeros"

-----------------------------------------------------------------------------
(* An inductive invariant.                                                 *)

Clear(k) == [form |-> "clear", key |-> k]

\* The envelope c reads is complete, and complete envelopes are not changed.
Reads(c) == source[c] \in Calls /\ envelope[source[c]].dek # 0

Opens(e) == envelope[e].dek # 0 =>
  /\ at[e] = "done"
  /\ envelope[e].sealed = e
  /\ mem[envelope[e].dek] = [form |-> "wrapped", key |-> e]

\* What a call has at each place of its code.
Has(c) ==
  /\ at[c] \in {"start", "made", "sealed", "asked", "open"} => envelope[c].dek = 0
  /\ at[c] = "start" => dek[c] = 0 /\ resp[c] = 0
  /\ at[c] \in {"made", "sealed"} =>
       dek[c] # 0 /\ mem[dek[c]] = Clear(c) /\ resp[c] = 0
  /\ at[c] = "sealed" => envelope[c].sealed = c
  /\ at[c] = "asked" =>
       /\ Reads(c) /\ dek[c] = 0
       /\ IF kms THEN resp[c] # 0 /\ mem[resp[c]] = Clear(source[c]) ELSE resp[c] = 0
  /\ at[c] = "open" =>
       /\ Reads(c) /\ dek[c] # 0 /\ mem[dek[c]] = Clear(source[c])
       /\ resp[c] # 0 => mem[resp[c]].form = "zeros"
  /\ at[c] = "done" =>
       /\ dek[c] # 0 => mem[dek[c]].form = "zeros"
       /\ resp[c] # 0 => mem[resp[c]].form = "zeros"
  /\ answer[c] # "garbled"

\* A slice has one owner.
Apart(c, d) ==
  /\ dek[c] # 0 =>
       dek[c] # resp[d] /\ dek[c] # envelope[d].dek /\ (c # d => dek[c] # dek[d])
  /\ resp[c] # 0 =>
       resp[c] # envelope[d].dek /\ (c # d => resp[c] # resp[d])

CryptoInv ==
  /\ CryptoTypeOK
  /\ \A c \in Calls : Has(c) /\ Opens(c)
  /\ \A c, d \in Calls : Apart(c, d)
=============================================================================
