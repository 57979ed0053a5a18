-------------------------- MODULE MaskedWriterProofs --------------------------
(***************************************************************************)
(* What the writer promises of every set of secrets, whatever is written,  *)
(* in pieces of any length: no registered secret comes out, no finished    *)
(* line is held back, and the output is the same as for the whole text.    *)
(***************************************************************************)
EXTENDS MaskedWriter, SequenceTheorems, WellFoundedInduction, TLAPS

(* What went out, followed by what is pending, and at each place of it     *)
(* where something went out the reason why no secret s began there: a byte *)
(* of it differs, in what went out already or in what is pending still.    *)
Stream == out \o pending

Differs(s, k) ==
  \E j \in 1 .. Len(s) :
    /\ k + j - 1 <= Len(out) + Len(pending)
    /\ Stream[k + j - 1] # s[j]

Types ==
  /\ secrets \subseteq Secrets
  /\ pending \in Seq(Chars) /\ written \in Seq(Chars)
  /\ out \in Seq(Chars \cup {Redacted})
  /\ busy \in BOOLEAN
  /\ since \in [Secrets -> Nat]

Decided == \A s \in secrets : \A k \in since[s] + 1 .. Len(out) : Differs(s, k)

(* What is pending is the end of what was written; between two calls it is *)
(* the beginning of a secret.                                              *)
Held ==
  /\ pending # <<>> =>
       written # <<>> /\ written[Len(written)] = pending[Len(pending)]
  /\ ~busy /\ pending # <<>> => CouldGrowIntoSecret(pending, secrets)

IInv == Types /\ Decided /\ Held

-----------------------------------------------------------------------------
(* The bytes of a stream of two parts. *)
LEMMA Parts ==
  ASSUME NEW S, NEW a \in Seq(S), NEW b \in Seq(S)
  PROVE  /\ a \o b \in Seq(S) /\ Len(a \o b) = Len(a) + Len(b)
         /\ \A i \in 1 .. Len(a) : (a \o b)[i] = a[i]
         /\ \A i \in 1 .. Len(b) : (a \o b)[Len(a) + i] = b[i]
  OBVIOUS

(* What Rest leaves of a buffer. *)
LEMMA RestOfBuffer ==
  ASSUME NEW b \in Seq(Chars), NEW n \in 1 .. Len(b)
  PROVE  /\ Rest(b, n) \in Seq(Chars) /\ Len(Rest(b, n)) = Len(b) - n
         /\ \A i \in 1 .. Len(b) - n : Rest(b, n)[i] = b[n + i]
  BY DEF Rest

(* A prefix is no longer than the whole and agrees with it. *)
LEMMA PrefixBytes ==
  ASSUME NEW S, NEW a \in Seq(S), NEW b \in Seq(S)
  PROVE  IsPrefix(a, b) <=>
           Len(a) <= Len(b) /\ \A i \in 1 .. Len(a) : a[i] = b[i]
  <1>1. ASSUME IsPrefix(a, b)
        PROVE  Len(a) <= Len(b) /\ \A i \in 1 .. Len(a) : a[i] = b[i]
    <2>1. Len(a) <= Len(b) /\ SubSeq(a, 1, Len(a)) = SubSeq(b, 1, Len(a))
      BY <1>1 DEF IsPrefix
    <2>2. ASSUME NEW i \in 1 .. Len(a) PROVE a[i] = b[i]
      <3>1. SubSeq(a, 1, Len(a))[i] = a[i] /\ SubSeq(b, 1, Len(a))[i] = b[i]
        BY <2>1
      <3>. QED  BY <2>1, <3>1
    <2>. QED  BY <2>1, <2>2
  <1>2. ASSUME Len(a) <= Len(b), \A i \in 1 .. Len(a) : a[i] = b[i]
        PROVE  IsPrefix(a, b)
    <2>1. SubSeq(a, 1, Len(a)) = SubSeq(b, 1, Len(a))
      BY <1>2
    <2>. QED  BY <1>2, <2>1 DEF IsPrefix
  <1>. QED  BY <1>1, <1>2

(* Secrets are texts of at least one byte, and none ends a line. *)
LEMMA SecretBytes ==
  ASSUME NEW s \in Secrets
  PROVE  /\ s \in Seq(Chars) /\ Len(s) \in Nat \ {0}
         /\ \A j \in 1 .. Len(s) : s[j] \in Chars /\ s[j] # Newline
  <1>1. s \in Seq(Chars \ {Newline}) /\ s # <<>>
    BY WriterAssumption
  <1>2. Len(s) \in Nat \ {0} /\ \A j \in 1 .. Len(s) : s[j] \in Chars \ {Newline}
    BY <1>1
  <1>3. s \in Seq(Chars)
    BY <1>1
  <1>. QED  BY <1>2, <1>3

(* A chunk is a text. *)
LEMMA ChunkIsText ==
  ASSUME NEW p \in Chunks
  PROVE  p \in Seq(Chars) /\ p # <<>>
  <1>1. PICK n \in 1 .. MaxChunk : p \in [1 .. n -> Chars]
    BY DEF Chunks
  <1>2. n \in Nat /\ n >= 1
    BY <1>1, WriterAssumption
  <1>3. p \in Seq(Chars) /\ Len(p) = n
    BY <1>1, <1>2
  <1>4. Len(<<>>) = 0
    OBVIOUS
  <1>. QED  BY <1>2, <1>3, <1>4

-----------------------------------------------------------------------------
(* Types *)
LEMMA TypesInit == Init => Types
  <1>1. <<>> \in Seq(Chars)
    BY EmptySeq
  <1>2. <<>> \in Seq(Chars \cup {Redacted})
    BY EmptySeq
  <1>3. [s \in Secrets |-> 0] \in [Secrets -> Nat]
    OBVIOUS
  <1>. QED  BY <1>1, <1>2, <1>3 DEF Init, Types

LEMMA TypesStep == Types /\ [Next]_vars => Types'
  <1>. SUFFICES ASSUME Types, [Next]_vars PROVE Types'
    OBVIOUS
  <1>1. CASE UNCHANGED vars
    BY <1>1 DEF Types, vars
  <1>2. ASSUME NEW s \in Secrets, AddSecrets(s) PROVE Types'
    <2>1. Len(out) \in Nat
      BY DEF Types
    <2>. QED  BY <1>2, <2>1 DEF AddSecrets, Types
  <1>3. ASSUME NEW p \in Chunks, Write(p) PROVE Types'
    <2>1. pending \o p \in Seq(Chars) /\ written \o p \in Seq(Chars)
      BY ChunkIsText, Parts DEF Types
    <2>. QED  BY <1>3, <2>1 DEF Write, Types
  <1>4. CASE Pause
    BY <1>4 DEF Pause, Types
  <1>5. CASE Redact
    <2>1. PICK s \in secrets : IsPrefix(s, pending) /\ pending' = Rest(pending, Len(s))
      BY <1>5 DEF Redact, LongestMatchAtStart, MatchesAtStart
    <2>2. s \in Seq(Chars) /\ Len(s) \in Nat \ {0}
      BY SecretBytes DEF Types
    <2>3. Len(s) \in 1 .. Len(pending)
      BY <2>1, <2>2, PrefixBytes DEF Types
    <2>4. pending' \in Seq(Chars)
      BY <2>1, <2>3, RestOfBuffer DEF Types
    <2>5. Append(out, Redacted) \in Seq(Chars \cup {Redacted})
      BY DEF Types
    <2>. QED  BY <1>5, <2>4, <2>5 DEF Redact, Types
  <1>6. CASE Emit
    <2>1. Len(pending) \in Nat /\ Len(pending) >= 1 /\ Head(pending) \in Chars
      BY <1>6 DEF Emit, Draining, Types
    <2>2. Rest(pending, 1) \in Seq(Chars)
      BY <2>1, RestOfBuffer DEF Types
    <2>3. Append(out, Head(pending)) \in Seq(Chars \cup {Redacted})
      BY <2>1 DEF Types
    <2>. QED  BY <1>6, <2>2, <2>3 DEF Emit, Types
  <1>. QED  BY <1>1, <1>2, <1>3, <1>4, <1>5, <1>6 DEF Next

(* The bytes of the stream are those that went out and those pending. *)
LEMMA StreamBytes ==
  ASSUME Types
  PROVE  /\ Len(out) \in Nat /\ Len(pending) \in Nat
         /\ Stream \in Seq(Chars \cup {Redacted})
         /\ Len(Stream) = Len(out) + Len(pending)
         /\ \A i \in 1 .. Len(out) : Stream[i] = out[i]
         /\ \A i \in 1 .. Len(pending) : Stream[Len(out) + i] = pending[i]
  <1>1. out \in Seq(Chars \cup {Redacted}) /\ pending \in Seq(Chars \cup {Redacted})
    BY DEF Types
  <1>2. Len(out) \in Nat /\ Len(pending) \in Nat
    BY <1>1
  <1>. QED  BY <1>1, <1>2, Parts DEF Stream

(* A byte that went out, or is pending, and that differs from the secret's *)
(* goes on to differ whatever else becomes pending.                        *)
LEMMA StreamGrows ==
  ASSUME Types, Types',
         Len(out') + Len(pending') >= Len(out) + Len(pending),
         \A i \in 1 .. Len(Stream) : Stream'[i] = Stream[i],
         NEW s \in Secrets, NEW k \in Nat \ {0}, Differs(s, k)
  PROVE  Differs(s, k)'
  <1>1. PICK j \in 1 .. Len(s) :
          k + j - 1 <= Len(out) + Len(pending) /\ Stream[k + j - 1] # s[j]
    BY DEF Differs
  <1>2. Len(s) \in Nat
    BY SecretBytes
  <1>3. k + j - 1 \in 1 .. Len(Stream)
    BY <1>1, <1>2, StreamBytes
  <1>4. Len(out') \in Nat /\ Len(pending') \in Nat
    BY DEF Types
  <1>5. k + j - 1 <= Len(out)' + Len(pending)'
    BY <1>1, <1>2, <1>4, StreamBytes
  <1>. QED  BY <1>1, <1>3, <1>5 DEF Differs

-----------------------------------------------------------------------------
(* Decided *)

(* A byte that is emitted begins no secret: each one differs within what   *)
(* was pending.                                                            *)
LEMMA NoneBegins ==
  ASSUME Types, Draining, MatchesAtStart(pending, secrets) = {},
         NEW s \in secrets
  PROVE  \E j \in 1 .. Len(s) : j <= Len(pending) /\ pending[j] # s[j]
  <1>1. s \in Secrets /\ s \in Seq(Chars) /\ Len(s) \in Nat \ {0}
    BY SecretBytes DEF Types
  <1>2. pending \in Seq(Chars) /\ Len(pending) \in Nat
    BY DEF Types
  <1>3. ~IsPrefix(s, pending)
    BY DEF MatchesAtStart
  <1>4. ~(Len(s) > Len(pending) /\ IsPrefix(pending, s))
    BY DEF Draining, CouldGrowIntoSecret
  <1>5. CASE Len(s) <= Len(pending)
    <2>1. PICK j \in 1 .. Len(s) : s[j] # pending[j]
      BY <1>1, <1>2, <1>3, <1>5, PrefixBytes
    <2>. QED  BY <2>1, <1>1, <1>2, <1>5
  <1>6. CASE Len(s) > Len(pending)
    <2>1. ~IsPrefix(pending, s) /\ Len(pending) <= Len(s)
      BY <1>1, <1>2, <1>4, <1>6
    <2>2. PICK j \in 1 .. Len(pending) : pending[j] # s[j]
      BY <1>1, <1>2, <2>1, PrefixBytes
    <2>. QED  BY <2>2, <1>1, <1>2, <1>6
  <1>. QED  BY <1>1, <1>2, <1>5, <1>6

LEMMA DecidedWrite ==
  ASSUME Types, Types', Decided, NEW p \in Chunks, Write(p)
  PROVE  Decided'
  <1>1. p \in Seq(Chars) /\ pending \in Seq(Chars)
    BY ChunkIsText DEF Types
  <1>2. /\ pending' = pending \o p /\ out' = out
        /\ secrets' = secrets /\ since' = since
    BY DEF Write
  <1>3. /\ Len(pending') = Len(pending) + Len(p) /\ Len(p) \in Nat
        /\ \A m \in 1 .. Len(pending) : pending'[m] = pending[m]
    BY <1>1, <1>2, Parts
  <1>4. /\ \A i \in 1 .. Len(out') : Stream'[i] = out'[i]
        /\ \A m \in 1 .. Len(pending') : Stream'[Len(out') + m] = pending'[m]
    <2>1. /\ out' \in Seq(Chars \cup {Redacted})
          /\ pending' \in Seq(Chars \cup {Redacted})
      BY DEF Types
    <2>. QED  BY <2>1, Parts DEF Stream
  <1>5. ASSUME NEW i \in 1 .. Len(Stream) PROVE Stream'[i] = Stream[i]
    <2>1. CASE i <= Len(out)
      BY <2>1, <1>2, <1>4, StreamBytes
    <2>2. CASE i > Len(out)
      <3>1. PICK m \in 1 .. Len(pending) : i = Len(out) + m
        <4>1. i - Len(out) \in 1 .. Len(pending) /\ i = Len(out) + (i - Len(out))
          BY <2>2, StreamBytes
        <4>. QED  BY <4>1
      <3>2. m \in 1 .. Len(pending')
        BY <1>3, StreamBytes
      <3>. QED  BY <3>1, <3>2, <1>2, <1>3, <1>4, StreamBytes
    <2>. QED  BY <2>1, <2>2, StreamBytes
  <1>6. Len(out') + Len(pending') >= Len(out) + Len(pending)
    BY <1>2, <1>3, StreamBytes
  <1>7. ASSUME NEW s \in secrets', NEW k \in (since[s] + 1 .. Len(out))'
        PROVE  Differs(s, k)'
    <2>1. s \in secrets /\ s \in Secrets /\ k \in since[s] + 1 .. Len(out)
      BY <1>2 DEF Types
    <2>2. k \in Nat \ {0}
      BY <2>1, StreamBytes DEF Types
    <2>3. Differs(s, k)
      BY <2>1 DEF Decided
    <2>. QED  BY <1>5, <1>6, <2>1, <2>2, <2>3, StreamGrows
  <1>. QED  BY <1>7 DEF Decided

(* What an Emit does to the parts of the stream. *)
LEMMA EmitBytes ==
  ASSUME Types, Emit
  PROVE  /\ Len(pending) >= 1
         /\ Len(out') = Len(out) + 1 /\ Len(pending') = Len(pending) - 1
         /\ \A i \in 1 .. Len(out) : out'[i] = out[i]
         /\ out'[Len(out) + 1] = pending[1]
         /\ \A m \in 1 .. Len(pending) - 1 : pending'[m] = pending[1 + m]
  <1>1. pending \in Seq(Chars) /\ pending # <<>> /\ out \in Seq(Chars \cup {Redacted})
    BY DEF Types, Emit, Draining
  <1>2. Len(pending) \in Nat /\ Len(pending) >= 1 /\ Head(pending) = pending[1]
    BY <1>1
  <1>3. /\ Len(Rest(pending, 1)) = Len(pending) - 1
        /\ \A m \in 1 .. Len(pending) - 1 : Rest(pending, 1)[m] = pending[1 + m]
    BY <1>1, <1>2, RestOfBuffer
  <1>4. /\ Len(Append(out, pending[1])) = Len(out) + 1
        /\ \A i \in 1 .. Len(out) : Append(out, pending[1])[i] = out[i]
        /\ Append(out, pending[1])[Len(out) + 1] = pending[1]
    BY <1>1
  <1>. QED  BY <1>2, <1>3, <1>4 DEF Emit

(* A place of the stream is one of out, or one of pending. *)
LEMMA Places ==
  ASSUME Types, NEW i \in 1 .. Len(Stream)
  PROVE  i \in 1 .. Len(out) \/ \E m \in 1 .. Len(pending) : i = Len(out) + m
  <1>1. CASE i <= Len(out)
    BY <1>1, StreamBytes
  <1>2. CASE i > Len(out)
    <2>1. i - Len(out) \in 1 .. Len(pending) /\ i = Len(out) + (i - Len(out))
      BY <1>2, StreamBytes
    <2>. QED  BY <2>1
  <1>. QED  BY <1>1, <1>2, StreamBytes

LEMMA DecidedEmit ==
  ASSUME Types, Types', Decided, Emit
  PROVE  Decided'
  <1>1. secrets' = secrets /\ since' = since
    BY DEF Emit
  <1>2. /\ \A i \in 1 .. Len(out') : Stream'[i] = out'[i]
        /\ \A m \in 1 .. Len(pending') : Stream'[Len(out') + m] = pending'[m]
    <2>1. /\ out' \in Seq(Chars \cup {Redacted})
          /\ pending' \in Seq(Chars \cup {Redacted})
      BY DEF Types
    <2>. QED  BY <2>1, Parts DEF Stream
  <1>3. ASSUME NEW i \in 1 .. Len(Stream) PROVE Stream'[i] = Stream[i]
    <2>1. CASE i \in 1 .. Len(out)
      <3>1. i \in 1 .. Len(out')
        BY <2>1, EmitBytes, StreamBytes
      <3>. QED  BY <2>1, <3>1, <1>2, EmitBytes, StreamBytes
    <2>2. ASSUME NEW m \in 1 .. Len(pending), i = Len(out) + m
          PROVE  Stream'[i] = Stream[i]
      <3>1. Stream[i] = pending[m]
        BY <2>2, StreamBytes
      <3>2. CASE m = 1
        <4>1. i \in 1 .. Len(out') /\ i = Len(out) + 1
          BY <2>2, <3>2, EmitBytes, StreamBytes
        <4>. QED  BY <4>1, <3>1, <3>2, <1>2, EmitBytes
      <3>3. CASE m # 1
        <4>1. PICK n \in 1 .. Len(pending) - 1 : m = 1 + n
          <5>1. m - 1 \in 1 .. Len(pending) - 1 /\ m = 1 + (m - 1)
            BY <3>3, StreamBytes
          <5>. QED  BY <5>1
        <4>2. n \in 1 .. Len(pending') /\ i = Len(out') + n
          <5>1. Len(out') = Len(out) + 1 /\ Len(pending') = Len(pending) - 1
            BY EmitBytes
          <5>2. Len(out) \in Nat /\ Len(pending) \in Nat
            BY StreamBytes
          <5>. QED  BY <2>2, <4>1, <5>1, <5>2
        <4>3. Stream'[i] = pending'[n] /\ pending'[n] = pending[1 + n]
          BY <4>2, <1>2, EmitBytes
        <4>. QED  BY <3>1, <4>1, <4>3
      <3>. QED  BY <3>2, <3>3
    <2>. QED  BY <2>1, <2>2, Places
  <1>4. Len(out') + Len(pending') >= Len(out) + Len(pending)
    BY EmitBytes, StreamBytes
  <1>5. ASSUME NEW s \in secrets', NEW k \in (since[s] + 1 .. Len(out))'
        PROVE  Differs(s, k)'
    <2>1. s \in secrets /\ s \in Secrets /\ k \in since[s] + 1 .. Len(out) + 1
      BY <1>1, EmitBytes DEF Types
    <2>2. k \in Nat \ {0} /\ since[s] \in Nat
      BY <2>1, StreamBytes DEF Types
    <2>3. Differs(s, k)
      <3>1. CASE k <= Len(out)
        <4>1. k \in since[s] + 1 .. Len(out)
          BY <3>1, <2>1, <2>2, StreamBytes
        <4>. QED  BY <4>1, <2>1 DEF Decided
      <3>2. CASE k > Len(out)
        <4>1. k = Len(out) + 1
          BY <3>2, <2>1, <2>2, StreamBytes
        <4>2. PICK j \in 1 .. Len(s) : j <= Len(pending) /\ pending[j] # s[j]
          BY <2>1, NoneBegins DEF Emit
        <4>3. Len(s) \in Nat
          BY <2>1, SecretBytes
        <4>4. j \in 1 .. Len(pending) /\ k + j - 1 = Len(out) + j
          BY <4>1, <4>2, <4>3, StreamBytes
        <4>5. Len(out) + j <= Len(out) + Len(pending)
          BY <4>4, StreamBytes
        <4>6. Stream[Len(out) + j] = pending[j]
          BY <4>4, StreamBytes
        <4>. QED  BY <4>2, <4>4, <4>5, <4>6 DEF Differs
      <3>. QED  BY <3>1, <3>2, <2>2, StreamBytes
    <2>. QED  BY <1>3, <1>4, <2>1, <2>2, <2>3, StreamGrows
  <1>. QED  BY <1>5 DEF Decided

(* After a Redact the place behind all that was out differs from every     *)
(* secret, whatever byte was pending there.                                *)
LEMMA DecidedRedact ==
  ASSUME Types, Types', Decided, Redact
  PROVE  Decided'
  <1>1. secrets' = secrets /\ since' = since /\ out' = Append(out, Redacted)
    BY DEF Redact
  <1>2. /\ Len(out') = Len(out) + 1 /\ out'[Len(out) + 1] = Redacted
        /\ \A i \in 1 .. Len(out) : out'[i] = out[i]
    <2>1. out \in Seq(Chars \cup {Redacted})
      BY DEF Types
    <2>. QED  BY <1>1, <2>1
  <1>3. \A i \in 1 .. Len(out') : Stream'[i] = out'[i]
    <2>1. /\ out' \in Seq(Chars \cup {Redacted})
          /\ pending' \in Seq(Chars \cup {Redacted})
      BY DEF Types
    <2>. QED  BY <2>1, Parts DEF Stream
  <1>4. Len(out) \in Nat /\ Len(out') \in Nat /\ Len(pending') \in Nat
    BY DEF Types
  <1>5. ASSUME NEW s \in secrets', NEW k \in (since[s] + 1 .. Len(out))'
        PROVE  Differs(s, k)'
    <2>1. s \in secrets /\ s \in Secrets /\ k \in since[s] + 1 .. Len(out) + 1
      BY <1>1, <1>2 DEF Types
    <2>2. k \in Nat \ {0} /\ since[s] \in Nat
      BY <1>4, <2>1 DEF Types
    <2>3. /\ Len(s) \in Nat \ {0}
          /\ \A j \in 1 .. Len(s) : s[j] # Redacted
      BY <2>1, SecretBytes, WriterAssumption
    <2>4. Len(out) + 1 \in 1 .. Len(out') /\ Stream'[Len(out) + 1] = Redacted
      BY <1>2, <1>3, <1>4
    <2>5. CASE k = Len(out) + 1
      <3>1. 1 \in 1 .. Len(s) /\ k + 1 - 1 = Len(out) + 1
              /\ k + 1 - 1 <= Len(out') + Len(pending')
        BY <2>2, <2>3, <2>5, <1>2, <1>4
      <3>2. Stream'[k + 1 - 1] # s[1]
        BY <3>1, <2>3, <2>4
      <3>. QED  BY <3>1, <3>2 DEF Differs
    <2>6. CASE k # Len(out) + 1
      <3>1. k \in since[s] + 1 .. Len(out)
        BY <1>4, <2>1, <2>2, <2>6
      <3>2. PICK j \in 1 .. Len(s) : k + j - 1 <= Len(out) + Len(pending)
                                      /\ Stream[k + j - 1] # s[j]
        BY <2>1, <3>1 DEF Decided, Differs
      <3>3. CASE k + j - 1 <= Len(out)
        <4>1. k + j - 1 \in 1 .. Len(out) /\ k + j - 1 \in 1 .. Len(out')
                /\ k + j - 1 <= Len(out') + Len(pending')
          BY <3>3, <2>2, <2>3, <1>2, <1>4
        <4>2. Stream'[k + j - 1] = Stream[k + j - 1]
          BY <4>1, <1>2, <1>3, StreamBytes
        <4>. QED  BY <3>2, <4>1, <4>2 DEF Differs
      <3>4. CASE k + j - 1 > Len(out)
        <4>1. PICK n \in 1 .. Len(s) : k + n - 1 = Len(out) + 1
          <5>1. Len(out) + 2 - k \in 1 .. Len(s)
                  /\ k + (Len(out) + 2 - k) - 1 = Len(out) + 1
            BY <3>1, <3>4, <2>2, <2>3, <1>4
          <5>. QED  BY <5>1
        <4>2. k + n - 1 <= Len(out') + Len(pending')
          BY <4>1, <1>2, <1>4
        <4>3. Stream'[k + n - 1] # s[n]
          BY <4>1, <2>3, <2>4
        <4>. QED  BY <4>2, <4>3 DEF Differs
      <3>. QED  BY <3>3, <3>4, <2>2, <2>3, <1>4
    <2>. QED  BY <2>5, <2>6
  <1>. QED  BY <1>5 DEF Decided

LEMMA DecidedStep == Types /\ Types' /\ Decided /\ [Next]_vars => Decided'
  <1>. SUFFICES ASSUME Types, Types', Decided, [Next]_vars PROVE Decided'
    OBVIOUS
  <1>1. CASE UNCHANGED vars
    BY <1>1 DEF Decided, Differs, Stream, vars
  <1>2. ASSUME NEW t \in Secrets, AddSecrets(t) PROVE Decided'
    <2>1. /\ secrets' = secrets \cup {t} /\ since' = [since EXCEPT ![t] = Len(out)]
          /\ out' = out /\ pending' = pending
      BY <1>2 DEF AddSecrets
    <2>2. ASSUME NEW s \in secrets', NEW k \in (since[s] + 1 .. Len(out))'
          PROVE  Differs(s, k)'
      <3>1. s # t
        <4>1. CASE s = t
          <5>1. since'[s] = Len(out) /\ Len(out) \in Nat
            BY <2>1, <4>1 DEF Types
          <5>. QED  BY <2>1, <5>1
        <4>. QED  BY <4>1
      <3>2. s \in secrets /\ since'[s] = since[s]
        BY <2>1, <3>1 DEF Types
      <3>3. Differs(s, k)
        BY <2>1, <3>2 DEF Decided
      <3>. QED  BY <2>1, <3>3 DEF Differs, Stream
    <2>. QED  BY <2>2 DEF Decided
  <1>3. ASSUME NEW p \in Chunks, Write(p) PROVE Decided'
    BY <1>3, DecidedWrite
  <1>4. CASE Pause
    BY <1>4 DEF Pause, Decided, Differs, Stream
  <1>5. CASE Redact
    BY <1>5, DecidedRedact
  <1>6. CASE Emit
    BY <1>6, DecidedEmit
  <1>. QED  BY <1>1, <1>2, <1>3, <1>4, <1>5, <1>6 DEF Next

-----------------------------------------------------------------------------
(* Held *)

(* What follows in a buffer ends as the buffer does. *)
LEMMA RestEnd ==
  ASSUME NEW b \in Seq(Chars), NEW n \in 1 .. Len(b), Rest(b, n) # <<>>
  PROVE  Rest(b, n)[Len(Rest(b, n))] = b[Len(b)]
  <1>1. /\ Len(Rest(b, n)) = Len(b) - n
        /\ \A i \in 1 .. Len(b) - n : Rest(b, n)[i] = b[n + i]
        /\ Rest(b, n) \in Seq(Chars)
    BY RestOfBuffer
  <1>2. Len(Rest(b, n)) \in Nat \ {0}
    BY <1>1
  <1>3. Len(b) - n \in 1 .. Len(b) - n /\ n + (Len(b) - n) = Len(b)
    BY <1>1, <1>2
  <1>4. Rest(b, n)[Len(b) - n] = b[n + (Len(b) - n)]
    BY <1>1, <1>3
  <1>. QED  BY <1>1, <1>3, <1>4

LEMMA HeldStep == Types /\ Held /\ [Next]_vars => Held'
  <1>. SUFFICES ASSUME Types, Held, [Next]_vars PROVE Held'
    OBVIOUS
  <1>1. CASE UNCHANGED vars
    BY <1>1 DEF Held, CouldGrowIntoSecret, vars
  <1>2. ASSUME NEW t \in Secrets, AddSecrets(t) PROVE Held'
    BY <1>2 DEF AddSecrets, Held, CouldGrowIntoSecret
  <1>3. ASSUME NEW p \in Chunks, Write(p) PROVE Held'
    <2>1. p \in Seq(Chars) /\ Len(p) \in Nat \ {0}
            /\ pending \in Seq(Chars) /\ written \in Seq(Chars)
            /\ Len(pending) \in Nat /\ Len(written) \in Nat
      BY ChunkIsText DEF Types
    <2>2. pending' = pending \o p /\ written' = written \o p /\ busy'
      BY <1>3 DEF Write
    <2>3. Len(p) \in 1 .. Len(p)
      BY <2>1
    <2>4. /\ pending'[Len(pending')] = p[Len(p)]
      <3>1. Len(pending') = Len(pending) + Len(p)
        BY <2>1, <2>2, Parts
      <3>2. (pending \o p)[Len(pending) + Len(p)] = p[Len(p)]
        BY <2>1, <2>3, Parts
      <3>. QED  BY <2>2, <3>1, <3>2
    <2>5. written'[Len(written')] = p[Len(p)] /\ written' # <<>>
      <3>1. Len(written') = Len(written) + Len(p)
        BY <2>1, <2>2, Parts
      <3>2. (written \o p)[Len(written) + Len(p)] = p[Len(p)]
        BY <2>1, <2>3, Parts
      <3>3. Len(written') # Len(<<>>)
        BY <2>1, <3>1
      <3>. QED  BY <2>2, <3>1, <3>2, <3>3
    <2>. QED  BY <2>2, <2>4, <2>5 DEF Held
  <1>4. CASE Pause
    BY <1>4 DEF Pause, Held, CouldGrowIntoSecret
  <1>5. CASE Redact
    <2>1. PICK s \in secrets : IsPrefix(s, pending) /\ pending' = Rest(pending, Len(s))
      BY <1>5 DEF Redact, LongestMatchAtStart, MatchesAtStart
    <2>2. s \in Seq(Chars) /\ Len(s) \in Nat \ {0} /\ pending \in Seq(Chars)
      BY SecretBytes DEF Types
    <2>3. Len(s) \in 1 .. Len(pending)
      BY <2>1, <2>2, PrefixBytes
    <2>4. pending' # <<>> => pending'[Len(pending')] = pending[Len(pending)]
      BY <2>1, <2>2, <2>3, RestEnd
    <2>. QED  BY <1>5, <2>4 DEF Redact, Draining, Held
  <1>6. CASE Emit
    <2>1. pending \in Seq(Chars) /\ 1 \in 1 .. Len(pending)
      BY <1>6, EmitBytes, StreamBytes DEF Types
    <2>2. pending' # <<>> => pending'[Len(pending')] = pending[Len(pending)]
      BY <1>6, <2>1, RestEnd DEF Emit
    <2>. QED  BY <1>6, <2>2 DEF Emit, Draining, Held
  <1>. QED  BY <1>1, <1>2, <1>3, <1>4, <1>5, <1>6 DEF Next

-----------------------------------------------------------------------------
(* The inductive invariant holds of every reachable state. *)
THEOREM MaskedWriterIInv == Spec => []IInv
  <1>1. Init => IInv
    <2>1. Init => Decided /\ Held
      BY DEF Init, Decided, Held
    <2>. QED  BY <2>1, TypesInit DEF IInv
  <1>2. IInv /\ [Next]_vars => IInv'
    BY TypesStep, DecidedStep, HeldStep DEF IInv
  <1>. QED  BY <1>1, <1>2, PTL DEF Spec

(* No secret comes out once it is registered: none began where a byte went *)
(* out, for a byte of it differs there (drainPending emits a byte only     *)
(* when no secret starts with it or still may).                            *)
THEOREM MaskedWriterNoSecretShown == Spec => []NoSecretShown
  <1>1. IInv => NoSecretShown
    <2>. SUFFICES ASSUME IInv, NEW s \in secrets,
                         NEW k \in since[s] + 1 .. Len(out) - Len(s) + 1,
                         SubSeq(out, k, k + Len(s) - 1) = s
                  PROVE  FALSE
      BY DEF NoSecretShown
    <2>. USE DEF IInv
    <2>1. /\ Len(s) \in Nat \ {0} /\ since[s] \in Nat /\ Len(out) \in Nat
          /\ out \in Seq(Chars \cup {Redacted})
      BY SecretBytes, StreamBytes DEF Types
    <2>2. k \in since[s] + 1 .. Len(out) /\ k \in Nat \ {0}
      BY <2>1
    <2>3. PICK j \in 1 .. Len(s) : Stream[k + j - 1] # s[j]
      BY <2>2 DEF Decided, Differs
    <2>4. k + j - 1 \in 1 .. Len(out) /\ k + Len(s) - 1 <= Len(out)
      BY <2>1, <2>2
    <2>5. Stream[k + j - 1] = out[k + j - 1]
      BY <2>4, StreamBytes
    <2>6. SubSeq(out, k, k + Len(s) - 1)[j] = out[k + j - 1]
      BY <2>1, <2>2, <2>4
    <2>. QED  BY <2>3, <2>5, <2>6
  <1>. QED  BY <1>1, MaskedWriterIInv, PTL

(* Every finished line is out when the Write that ends it returns: what is *)
(* held back begins a secret, and no secret has the end of a line in it.   *)
THEOREM MaskedWriterLinesComplete == Spec => []LinesComplete
  <1>1. IInv => LinesComplete
    <2>. SUFFICES ASSUME IInv, ~busy, pending # <<>>,
                         written # <<>>, Last(written) = Newline
                  PROVE  FALSE
      BY DEF LinesComplete
    <2>. USE DEF IInv
    <2>1. pending[Len(pending)] = Newline
      BY DEF Held, Last
    <2>2. PICK s \in secrets : Len(s) > Len(pending) /\ IsPrefix(pending, s)
      BY DEF Held, CouldGrowIntoSecret
    <2>3. s \in Secrets /\ s \in Seq(Chars) /\ pending \in Seq(Chars)
      BY SecretBytes DEF Types
    <2>4. Len(pending) \in 1 .. Len(pending) /\ Len(pending) \in 1 .. Len(s)
      BY <2>2, <2>3
    <2>5. s[Len(pending)] = Newline
      BY <2>1, <2>2, <2>3, <2>4, PrefixBytes
    <2>. QED  BY <2>3, <2>4, <2>5, SecretBytes
  <1>. QED  BY <1>1, MaskedWriterIInv, PTL

-----------------------------------------------------------------------------
(* Induction over texts.  The theorems on induction of the library take an *)
(* operator; that every set of numbers has a least one does not.           *)
Less == {pair \in Nat \X Nat : pair[1] < pair[2]}

LEMMA LeastNumber ==
  ASSUME NEW T \in SUBSET Nat, T # {}
  PROVE  \E x \in T : \A y \in T : x <= y
  <1>1. IsWellFoundedOn(Less, Nat)
    <2>1. OpToRel(<, Nat) = Less
      BY DEF OpToRel, Less
    <2>. QED  BY <2>1, NatLessThanWellFounded
  <1>2. PICK x \in T : \A y \in T : <<y, x>> \notin Less
    BY <1>1, WFMin
  <1>3. ASSUME NEW y \in T PROVE x <= y
    <2>1. x \in Nat /\ y \in Nat /\ <<y, x>> \notin Less
      BY <1>2
    <2>. QED  BY <2>1 DEF Less
  <1>. QED  BY <1>2, <1>3

LEMMA Induction ==
  ASSUME NEW T \in SUBSET Nat, 0 \in T, \A n \in T : n + 1 \in T
  PROVE  T = Nat
  <1>. SUFFICES ASSUME Nat \ T # {} PROVE FALSE
    OBVIOUS
  <1>1. PICK x \in Nat \ T : \A y \in Nat \ T : x <= y
    BY LeastNumber
  <1>2. x - 1 \in Nat /\ x - 1 \in T
    BY <1>1
  <1>. QED  BY <1>1, <1>2

Short(n) == {b \in Seq(Chars) : Len(b) < n}

(* A claim about texts that follows from the shorter ones holds of all.    *)
LEMMA TextInduction ==
  ASSUME NEW G,
         \A b \in Seq(Chars) : (\A c \in Short(Len(b)) : c \in G) => b \in G
  PROVE  Seq(Chars) \subseteq G
  <1>. DEFINE T == {n \in Nat : Short(n) \subseteq G}
  <1>1. 0 \in T
    BY DEF Short
  <1>2. ASSUME NEW n \in T PROVE n + 1 \in T
    <2>1. ASSUME NEW b \in Short(n + 1) PROVE b \in G
      <3>1. b \in Seq(Chars) /\ Len(b) \in Nat /\ n \in Nat /\ Len(b) < n + 1
        BY DEF Short
      <3>2. ASSUME NEW c \in Short(Len(b)) PROVE c \in G
        <4>1. c \in Seq(Chars) /\ Len(c) \in Nat /\ Len(c) < Len(b)
          BY DEF Short
        <4>2. c \in Short(n)
          BY <3>1, <4>1 DEF Short
        <4>. QED  BY <4>2
      <3>. QED  BY <3>1, <3>2
    <2>. QED  BY <2>1
  <1>. HIDE DEF T
  <1>3. T = Nat
    <2>1. T \in SUBSET Nat
      BY DEF T
    <2>. QED  BY <1>1, <1>2, <2>1, Induction
  <1>4. ASSUME NEW b \in Seq(Chars) PROVE b \in G
    <2>1. Len(b) + 1 \in T /\ Len(b) \in Nat
      BY <1>3
    <2>2. b \in Short(Len(b) + 1)
      BY <2>1 DEF Short
    <2>. QED  BY <2>1, <2>2 DEF T
  <1>. QED  BY <1>4

-----------------------------------------------------------------------------
(* The longest secret at the start of a text is one, and there is no other *)
(* as long; it leaves a shorter text.                                      *)
LEMMA SecretAtStart ==
  ASSUME NEW known \in SUBSET Secrets, NEW b \in Seq(Chars),
         NEW s \in MatchesAtStart(b, known)
  PROVE  /\ s \in Secrets /\ s \in Seq(Chars) /\ Len(s) \in 1 .. Len(b)
         /\ \A i \in 1 .. Len(s) : s[i] = b[i]
         /\ Rest(b, Len(s)) \in Short(Len(b))
  <1>1. s \in Secrets /\ s \in Seq(Chars) /\ Len(s) \in Nat \ {0} /\ IsPrefix(s, b)
    BY SecretBytes DEF MatchesAtStart
  <1>2. Len(s) <= Len(b) /\ \A i \in 1 .. Len(s) : s[i] = b[i]
    BY <1>1, PrefixBytes
  <1>3. Len(b) \in Nat /\ Len(s) \in 1 .. Len(b)
    BY <1>1, <1>2
  <1>4. Rest(b, Len(s)) \in Seq(Chars) /\ Len(Rest(b, Len(s))) = Len(b) - Len(s)
    BY <1>3, RestOfBuffer
  <1>5. Rest(b, Len(s)) \in Short(Len(b))
    BY <1>3, <1>4 DEF Short
  <1>. QED  BY <1>1, <1>2, <1>3, <1>5

LEMMA LongestExists ==
  ASSUME NEW known \in SUBSET Secrets, NEW b \in Seq(Chars),
         MatchesAtStart(b, known) # {}
  PROVE  LongestMatchAtStart(b, known) # {}
  <1>. DEFINE T == {Len(b) - Len(s) : s \in MatchesAtStart(b, known)}
  <1>1. Len(b) \in Nat
    OBVIOUS
  <1>2. \A s \in MatchesAtStart(b, known) : Len(s) \in Nat /\ Len(b) - Len(s) \in Nat
    <2>. SUFFICES ASSUME NEW s \in MatchesAtStart(b, known)
                  PROVE  Len(s) \in Nat /\ Len(b) - Len(s) \in Nat
      OBVIOUS
    <2>1. Len(s) \in 1 .. Len(b)
      BY SecretAtStart
    <2>. QED  BY <1>1, <2>1
  <1>3. PICK x \in T : \A y \in T : x <= y
    <2>1. T \in SUBSET Nat /\ T # {}
      BY <1>2
    <2>. HIDE DEF T
    <2>. QED  BY <2>1, LeastNumber
  <1>4. PICK s \in MatchesAtStart(b, known) : x = Len(b) - Len(s)
    BY <1>3
  <1>5. ASSUME NEW t \in MatchesAtStart(b, known) PROVE Len(t) <= Len(s)
    <2>1. Len(b) - Len(s) <= Len(b) - Len(t)
      BY <1>3, <1>4
    <2>. QED  BY <1>1, <1>2, <2>1
  <1>. QED  BY <1>4, <1>5 DEF LongestMatchAtStart

LEMMA LongestUnique ==
  ASSUME NEW known \in SUBSET Secrets, NEW b \in Seq(Chars),
         NEW s \in LongestMatchAtStart(b, known), NEW t \in LongestMatchAtStart(b, known)
  PROVE  s = t
  <1>1. s \in MatchesAtStart(b, known) /\ t \in MatchesAtStart(b, known)
    BY DEF LongestMatchAtStart
  <1>2. /\ s \in Seq(Chars) /\ Len(s) \in 1 .. Len(b) /\ \A i \in 1 .. Len(s) : s[i] = b[i]
        /\ t \in Seq(Chars) /\ Len(t) \in 1 .. Len(b) /\ \A i \in 1 .. Len(t) : t[i] = b[i]
    BY <1>1, SecretAtStart
  <1>3. Len(s) = Len(t)
    <2>1. Len(s) <= Len(t) /\ Len(t) <= Len(s) /\ Len(s) \in Nat /\ Len(t) \in Nat
      BY <1>1, <1>2 DEF LongestMatchAtStart
    <2>. QED  BY <2>1
  <1>. QED  BY <1>2, <1>3

-----------------------------------------------------------------------------
(* The reference.  One turn of it, for the function f that says how what   *)
(* remains is masked; f is right up to n when it takes such turns there.   *)
MaskedTurn(f, b, known) ==
  IF b = <<>> THEN <<>>
  ELSE IF MatchesAtStart(b, known) = {}
  THEN <<Head(b)>> \o f[Rest(b, 1)]
  ELSE LET s == CHOOSE t \in LongestMatchAtStart(b, known) : TRUE
       IN <<Redacted>> \o f[Rest(b, Len(s))]

RightUpTo(f, n, known) == \A b \in Short(n) : f[b] = MaskedTurn(f, b, known)

(* A turn looks at shorter texts only. *)
LEMMA TurnLocal ==
  ASSUME NEW known \in SUBSET Secrets, NEW b \in Seq(Chars), NEW f, NEW g,
         \A c \in Short(Len(b)) : f[c] = g[c]
  PROVE  MaskedTurn(f, b, known) = MaskedTurn(g, b, known)
  <1>1. CASE b = <<>>
    BY <1>1 DEF MaskedTurn
  <1>2. CASE b # <<>> /\ MatchesAtStart(b, known) = {}
    <2>1. Len(b) \in Nat /\ 1 \in 1 .. Len(b)
      BY <1>2
    <2>2. Rest(b, 1) \in Seq(Chars) /\ Len(Rest(b, 1)) = Len(b) - 1
      BY <2>1, RestOfBuffer
    <2>3. Rest(b, 1) \in Short(Len(b))
      BY <2>1, <2>2 DEF Short
    <2>. QED  BY <1>2, <2>3 DEF MaskedTurn
  <1>3. CASE b # <<>> /\ MatchesAtStart(b, known) # {}
    <2>1. PICK s : s = (CHOOSE t \in LongestMatchAtStart(b, known) : TRUE)
      OBVIOUS
    <2>2. s \in LongestMatchAtStart(b, known)
      BY <1>3, <2>1, LongestExists
    <2>3. Rest(b, Len(s)) \in Short(Len(b))
      BY <2>2, SecretAtStart DEF LongestMatchAtStart
    <2>. QED  BY <1>3, <2>1, <2>3 DEF MaskedTurn
  <1>. QED  BY <1>1, <1>2, <1>3

LEMMA ShorterStill ==
  ASSUME NEW n, NEW b \in Seq(Chars), b \in Short(n), n \in Int, NEW c \in Short(Len(b))
  PROVE  c \in Short(n)
  <1>1. Len(b) \in Nat /\ Len(c) \in Nat /\ Len(c) < Len(b) /\ Len(b) < n /\ c \in Seq(Chars)
    BY DEF Short
  <1>. QED  BY <1>1 DEF Short

LEMMA RightAgree ==
  ASSUME NEW known \in SUBSET Secrets, NEW f, NEW g, NEW n \in Nat, NEW m \in Nat,
         RightUpTo(f, n, known), RightUpTo(g, m, known)
  PROVE  \A b \in Short(n) \cap Short(m) : f[b] = g[b]
  <1>. DEFINE G == {b \in Seq(Chars) : b \in Short(n) \cap Short(m) => f[b] = g[b]}
  <1>1. ASSUME NEW b \in Seq(Chars), \A c \in Short(Len(b)) : c \in G PROVE b \in G
    <2>. SUFFICES ASSUME b \in Short(n), b \in Short(m) PROVE f[b] = g[b]
      OBVIOUS
    <2>1. ASSUME NEW c \in Short(Len(b)) PROVE c \in Short(n) /\ c \in Short(m)
      <3>. QED  BY ShorterStill
    <2>2. \A c \in Short(Len(b)) : f[c] = g[c]
      BY <1>1, <2>1
    <2>3. MaskedTurn(f, b, known) = MaskedTurn(g, b, known)
      BY <2>2, TurnLocal
    <2>. QED  BY <2>3 DEF RightUpTo
  <1>2. Seq(Chars) \subseteq G
    <2>. HIDE DEF G
    <2>. QED  BY <1>1, TextInduction
  <1>. QED  BY <1>2 DEF Short

LEMMA RightExists ==
  ASSUME NEW known \in SUBSET Secrets, NEW n \in Nat
  PROVE  \E f : RightUpTo(f, n, known)
  <1>. DEFINE T == {k \in Nat : \E f : RightUpTo(f, k, known)}
  <1>1. 0 \in T
    <2>1. RightUpTo(<<>>, 0, known)
      BY DEF RightUpTo, Short
    <2>. QED  BY <2>1
  <1>2. ASSUME NEW k \in T PROVE k + 1 \in T
    <2>1. PICK f : RightUpTo(f, k, known)
      OBVIOUS
    <2>2. PICK g : g = [b \in Short(k + 1) |-> MaskedTurn(f, b, known)]
      OBVIOUS
    <2>3. ASSUME NEW b \in Short(k + 1) PROVE g[b] = MaskedTurn(g, b, known)
      <3>1. ASSUME NEW c \in Short(Len(b)) PROVE f[c] = g[c]
        <4>1. b \in Seq(Chars) /\ Len(b) \in Nat /\ k \in Nat /\ Len(b) < k + 1
          BY DEF Short
        <4>2. c \in Seq(Chars) /\ Len(c) \in Nat /\ Len(c) < Len(b)
          BY DEF Short
        <4>3. c \in Short(k) /\ c \in Short(k + 1)
          BY <4>1, <4>2 DEF Short
        <4>. QED  BY <2>1, <2>2, <4>3 DEF RightUpTo
      <3>2. b \in Seq(Chars)
        BY DEF Short
      <3>3. MaskedTurn(f, b, known) = MaskedTurn(g, b, known)
        BY <3>1, <3>2, TurnLocal
      <3>. QED  BY <2>2, <3>3
    <2>4. RightUpTo(g, k + 1, known)
      BY <2>3 DEF RightUpTo
    <2>. QED  BY <2>4
  <1>. HIDE DEF T
  <1>3. T = Nat
    <2>1. T \in SUBSET Nat
      BY DEF T
    <2>. QED  BY <1>1, <1>2, <2>1, Induction
  <1>. QED  BY <1>3 DEF T

(* So there is a function that takes such turns everywhere, and Masked is  *)
(* one.                                                                    *)
LEMMA MaskedIsRight ==
  ASSUME NEW known \in SUBSET Secrets
  PROVE  \E f : /\ f = [b \in Seq(Chars) |-> MaskedTurn(f, b, known)]
                /\ \A b : Masked(b, known) = f[b]
  <1>. DEFINE Right(f) == f = [b \in Seq(Chars) |-> MaskedTurn(f, b, known)]
  <1>1. PICK upTo : upTo = [n \in Nat |-> CHOOSE f : RightUpTo(f, n, known)]
    OBVIOUS
  <1>2. ASSUME NEW n \in Nat PROVE RightUpTo(upTo[n], n, known)
    BY <1>1, RightExists
  <1>3. PICK f : f = [b \in Seq(Chars) |-> upTo[Len(b) + 1][b]]
    OBVIOUS
  <1>4. ASSUME NEW b \in Seq(Chars) PROVE f[b] = MaskedTurn(f, b, known)
    <2>1. Len(b) \in Nat /\ Len(b) + 1 \in Nat /\ b \in Short(Len(b) + 1)
      BY DEF Short
    <2>2. PICK g : g = upTo[Len(b) + 1] /\ RightUpTo(g, Len(b) + 1, known)
      BY <1>2, <2>1
    <2>3. ASSUME NEW c \in Short(Len(b)) PROVE g[c] = f[c]
      <3>1. c \in Seq(Chars) /\ Len(c) \in Nat /\ Len(c) + 1 \in Nat
        BY DEF Short
      <3>2. c \in Short(Len(c) + 1) /\ c \in Short(Len(b) + 1)
        BY <2>1, <3>1 DEF Short
      <3>3. RightUpTo(upTo[Len(c) + 1], Len(c) + 1, known)
        BY <1>2, <3>1
      <3>4. PICK h : h = upTo[Len(c) + 1]
        OBVIOUS
      <3>5. RightUpTo(h, Len(c) + 1, known)
        BY <3>3, <3>4
      <3>6. \A d \in Short(Len(b) + 1) \cap Short(Len(c) + 1) : g[d] = h[d]
        BY <2>1, <2>2, <3>1, <3>5, RightAgree
      <3>7. g[c] = h[c]
        BY <3>2, <3>6
      <3>. QED  BY <1>3, <3>1, <3>4, <3>7
    <2>4. MaskedTurn(g, b, known) = MaskedTurn(f, b, known)
      BY <2>3, TurnLocal
    <2>5. f[b] = g[b]
      BY <1>3, <2>2
    <2>6. g[b] = MaskedTurn(g, b, known)
      BY <2>1, <2>2 DEF RightUpTo
    <2>. QED  BY <2>4, <2>5, <2>6
  <1>5. Right(f)
    BY <1>3, <1>4
  <1>6. Right(CHOOSE g : Right(g))
    BY <1>5
  <1>7. \A b : Masked(b, known) = (CHOOSE g : Right(g))[b]
    BY DEF Masked, MaskedTurn
  <1>. QED  BY <1>6, <1>7

LEMMA MaskedEmpty ==
  ASSUME NEW known \in SUBSET Secrets
  PROVE  Masked(<<>>, known) = <<>>
  <1>1. PICK f : /\ f = [b \in Seq(Chars) |-> MaskedTurn(f, b, known)]
                 /\ \A b : Masked(b, known) = f[b]
    BY MaskedIsRight
  <1>2. <<>> \in Seq(Chars)
    BY EmptySeq
  <1>3. f[<<>>] = MaskedTurn(f, <<>>, known)
    BY <1>1, <1>2
  <1>. QED  BY <1>1, <1>3 DEF MaskedTurn

LEMMA MaskedByte ==
  ASSUME NEW known \in SUBSET Secrets, NEW b \in Seq(Chars), b # <<>>,
         MatchesAtStart(b, known) = {}
  PROVE  Masked(b, known) = <<Head(b)>> \o Masked(Rest(b, 1), known)
  <1>1. PICK f : /\ f = [c \in Seq(Chars) |-> MaskedTurn(f, c, known)]
                 /\ \A c : Masked(c, known) = f[c]
    BY MaskedIsRight
  <1>2. f[b] = MaskedTurn(f, b, known)
    BY <1>1
  <1>3. MaskedTurn(f, b, known) = <<Head(b)>> \o f[Rest(b, 1)]
    BY DEF MaskedTurn
  <1>. QED  BY <1>1, <1>2, <1>3

LEMMA MaskedSecret ==
  ASSUME NEW known \in SUBSET Secrets, NEW b \in Seq(Chars),
         NEW s \in LongestMatchAtStart(b, known)
  PROVE  Masked(b, known) = <<Redacted>> \o Masked(Rest(b, Len(s)), known)
  <1>1. PICK f : /\ f = [c \in Seq(Chars) |-> MaskedTurn(f, c, known)]
                 /\ \A c : Masked(c, known) = f[c]
    BY MaskedIsRight
  <1>2. f[b] = MaskedTurn(f, b, known)
    BY <1>1
  <1>3. s \in MatchesAtStart(b, known)
    BY DEF LongestMatchAtStart
  <1>4. b # <<>>
    <2>1. Len(s) \in 1 .. Len(b)
      BY <1>3, SecretAtStart
    <2>2. Len(<<>>) = 0
      OBVIOUS
    <2>. QED  BY <2>1, <2>2
  <1>5. s = (CHOOSE t \in LongestMatchAtStart(b, known) : TRUE)
    <2>1. (CHOOSE t \in LongestMatchAtStart(b, known) : TRUE) \in LongestMatchAtStart(b, known)
      OBVIOUS
    <2>. QED  BY <2>1, LongestUnique
  <1>6. MaskedTurn(f, b, known) = <<Redacted>> \o f[Rest(b, Len(s))]
    BY <1>3, <1>4, <1>5 DEF MaskedTurn
  <1>. QED  BY <1>1, <1>2, <1>6

LEMMA MaskedIsText ==
  ASSUME NEW known \in SUBSET Secrets, NEW b \in Seq(Chars)
  PROVE  Masked(b, known) \in Seq(Chars \cup {Redacted})
  <1>. DEFINE G == {c \in Seq(Chars) : Masked(c, known) \in Seq(Chars \cup {Redacted})}
  <1>1. ASSUME NEW c \in Seq(Chars), \A d \in Short(Len(c)) : d \in G PROVE c \in G
    <2>1. CASE c = <<>>
      BY <2>1, MaskedEmpty, EmptySeq
    <2>2. CASE c # <<>> /\ MatchesAtStart(c, known) = {}
      <3>1. Len(c) \in Nat \ {0} /\ Head(c) \in Chars
        BY <2>2
      <3>2. Rest(c, 1) \in Seq(Chars) /\ Len(Rest(c, 1)) = Len(c) - 1
        BY <3>1, RestOfBuffer
      <3>3. Rest(c, 1) \in Short(Len(c))
        BY <3>1, <3>2 DEF Short
      <3>4. Masked(Rest(c, 1), known) \in Seq(Chars \cup {Redacted})
        BY <1>1, <3>3
      <3>5. <<Head(c)>> \o Masked(Rest(c, 1), known) \in Seq(Chars \cup {Redacted})
        BY <3>1, <3>4
      <3>. QED  BY <2>2, <3>5, MaskedByte
    <2>3. CASE MatchesAtStart(c, known) # {}
      <3>1. PICK s : s \in LongestMatchAtStart(c, known)
        BY <2>3, LongestExists
      <3>2. Rest(c, Len(s)) \in Short(Len(c))
        BY <3>1, SecretAtStart DEF LongestMatchAtStart
      <3>3. Masked(Rest(c, Len(s)), known) \in Seq(Chars \cup {Redacted})
        BY <1>1, <3>2
      <3>4. <<Redacted>> \o Masked(Rest(c, Len(s)), known) \in Seq(Chars \cup {Redacted})
        BY <3>3
      <3>. QED  BY <3>1, <3>4, MaskedSecret
    <2>. QED  BY <2>1, <2>2, <2>3
  <1>2. Seq(Chars) \subseteq G
    <2>. HIDE DEF G
    <2>. QED  BY <1>1, TextInduction
  <1>. QED  BY <1>2

-----------------------------------------------------------------------------
(* A buffer that is no beginning of a longer secret starts with the same   *)
(* secrets whatever is written next, so the turn that is taken now is the  *)
(* one that would be taken if everything had been written at once.         *)
LEMMA MatchesSettled ==
  ASSUME NEW known \in SUBSET Secrets, NEW b \in Seq(Chars), NEW q \in Seq(Chars),
         ~CouldGrowIntoSecret(b, known)
  PROVE  MatchesAtStart(b \o q, known) = MatchesAtStart(b, known)
  <1>1. /\ b \o q \in Seq(Chars) /\ Len(b \o q) = Len(b) + Len(q)
        /\ \A i \in 1 .. Len(b) : (b \o q)[i] = b[i]
        /\ Len(b) \in Nat /\ Len(q) \in Nat
    BY Parts
  <1>2. ASSUME NEW t \in known, IsPrefix(t, b) PROVE IsPrefix(t, b \o q)
    <2>1. t \in Seq(Chars) /\ Len(t) \in Nat
      BY SecretBytes
    <2>2. Len(t) <= Len(b) /\ \A i \in 1 .. Len(t) : t[i] = b[i]
      BY <1>2, <2>1, PrefixBytes
    <2>3. Len(t) <= Len(b \o q) /\ \A i \in 1 .. Len(t) : t[i] = (b \o q)[i]
      BY <1>1, <2>1, <2>2
    <2>. QED  BY <1>1, <2>1, <2>3, PrefixBytes
  <1>3. ASSUME NEW t \in known, IsPrefix(t, b \o q) PROVE IsPrefix(t, b)
    <2>1. t \in Seq(Chars) /\ Len(t) \in Nat
      BY SecretBytes
    <2>2. Len(t) <= Len(b \o q) /\ \A i \in 1 .. Len(t) : t[i] = (b \o q)[i]
      <3>1. PICK w \in Seq(Chars) : w = b \o q
        BY <1>1
      <3>2. IsPrefix(t, w)
        BY <1>3, <3>1
      <3>3. Len(t) <= Len(w) /\ \A i \in 1 .. Len(t) : t[i] = w[i]
        BY <2>1, <3>2, PrefixBytes
      <3>. QED  BY <3>1, <3>3
    <2>3. CASE Len(t) <= Len(b)
      <3>1. \A i \in 1 .. Len(t) : t[i] = b[i]
        BY <1>1, <2>1, <2>2, <2>3
      <3>. QED  BY <2>1, <2>3, <3>1, PrefixBytes
    <2>4. CASE Len(t) > Len(b)
      <3>1. Len(b) <= Len(t) /\ \A i \in 1 .. Len(b) : b[i] = t[i]
        BY <1>1, <2>1, <2>2, <2>4
      <3>2. IsPrefix(b, t)
        BY <2>1, <3>1, PrefixBytes
      <3>. QED  BY <2>4, <3>2 DEF CouldGrowIntoSecret
    <2>. QED  BY <1>1, <2>1, <2>3, <2>4
  <1>. QED  BY <1>2, <1>3 DEF MatchesAtStart

LEMMA RestThenMore ==
  ASSUME NEW b \in Seq(Chars), NEW q \in Seq(Chars), NEW n \in 1 .. Len(b)
  PROVE  Rest(b \o q, n) = Rest(b, n) \o q
  <1>1. PICK w : w = b \o q
    OBVIOUS
  <1>2. PICK r : r = Rest(b, n)
    OBVIOUS
  <1>3. PICK u : u = Rest(w, n)
    OBVIOUS
  <1>4. PICK v : v = r \o q
    OBVIOUS
  <1>5. PICK nb \in Nat : nb = Len(b)
    OBVIOUS
  <1>6. PICK nq \in Nat : nq = Len(q)
    OBVIOUS
  <1>7. /\ w \in Seq(Chars) /\ Len(w) = nb + nq
        /\ \A i \in 1 .. nb : w[i] = b[i]
        /\ \A i \in 1 .. nq : w[nb + i] = q[i]
    BY <1>1, <1>5, <1>6, Parts
  <1>8. /\ r \in Seq(Chars) /\ Len(r) = nb - n
        /\ \A i \in 1 .. nb - n : r[i] = b[n + i]
    BY <1>2, <1>5, RestOfBuffer
  <1>9. /\ u \in Seq(Chars) /\ Len(u) = nb + nq - n
        /\ \A i \in 1 .. nb + nq - n : u[i] = w[n + i]
    <2>1. n \in 1 .. Len(w)
      BY <1>5, <1>7
    <2>2. /\ Rest(w, n) \in Seq(Chars) /\ Len(Rest(w, n)) = Len(w) - n
          /\ \A i \in 1 .. Len(w) - n : Rest(w, n)[i] = w[n + i]
      BY <1>7, <2>1, RestOfBuffer
    <2>. QED  BY <1>3, <1>7, <2>2
  <1>10. /\ v \in Seq(Chars) /\ Len(v) = Len(r) + nq
         /\ \A i \in 1 .. Len(r) : v[i] = r[i]
         /\ \A i \in 1 .. nq : v[Len(r) + i] = q[i]
    <2>1. r \in Seq(Chars) /\ q \in Seq(Chars)
      BY <1>8
    <2>2. /\ r \o q \in Seq(Chars) /\ Len(r \o q) = Len(r) + Len(q)
          /\ \A i \in 1 .. Len(r) : (r \o q)[i] = r[i]
          /\ \A i \in 1 .. Len(q) : (r \o q)[Len(r) + i] = q[i]
      BY <2>1, Parts
    <2>. QED  BY <1>4, <1>6, <2>2
  <1>11. n \in 1 .. nb
    BY <1>5
  <1>12. Len(u) = Len(v)
    BY <1>8, <1>9, <1>10, <1>11
  <1>13. ASSUME NEW i \in 1 .. Len(u) PROVE u[i] = v[i]
    <2>1. CASE i <= nb - n
      <3>1. i \in 1 .. nb - n /\ n + i \in 1 .. nb /\ i \in 1 .. nb + nq - n
        BY <1>9, <1>11, <2>1
      <3>. QED  BY <1>7, <1>8, <1>9, <1>10, <3>1
    <2>2. CASE i > nb - n
      <3>1. PICK j : j = i - (nb - n)
        OBVIOUS
      <3>2. /\ j \in 1 .. nq /\ i = (nb - n) + j /\ n + i = nb + j
            /\ i \in 1 .. nb + nq - n
        BY <1>9, <1>11, <2>2, <3>1
      <3>3. u[i] = q[j]
        BY <1>7, <1>9, <3>2
      <3>4. v[i] = q[j]
        BY <1>8, <1>10, <3>2
      <3>. QED  BY <3>3, <3>4
    <2>. QED  BY <1>9, <1>11, <2>1, <2>2
  <1>14. u = v
    BY <1>9, <1>10, <1>12, <1>13
  <1>. QED  BY <1>1, <1>2, <1>3, <1>4, <1>14

-----------------------------------------------------------------------------
(* Before the first byte is out nothing of what was written is gone.  The  *)
(* output, and what is pending whatever follows it, are what was written   *)
(* and follows it, masked as a whole.                                      *)
Intact == out = <<>> => pending = written

Uncut ==
  (\A s \in secrets : since[s] = 0) =>
    \A q \in Seq(Chars) :
      out \o Masked(pending \o q, secrets) = Masked(written \o q, secrets)

LEMMA IntactStep == Types /\ Intact /\ [Next]_vars => Intact'
  <1>. SUFFICES ASSUME Types, Intact, [Next]_vars PROVE Intact'
    OBVIOUS
  <1>1. CASE UNCHANGED vars
    BY <1>1 DEF Intact, vars
  <1>2. ASSUME NEW s \in Secrets, AddSecrets(s) PROVE Intact'
    BY <1>2 DEF AddSecrets, Intact
  <1>3. ASSUME NEW p \in Chunks, Write(p) PROVE Intact'
    BY <1>3 DEF Write, Intact
  <1>4. CASE Pause
    BY <1>4 DEF Pause, Intact
  <1>5. ASSUME NEW x, out' = Append(out, x) PROVE Intact'
    <2>1. Len(Append(out, x)) = Len(out) + 1 /\ Len(out) \in Nat
      BY DEF Types
    <2>2. Len(<<>>) = 0
      OBVIOUS
    <2>3. out' # <<>>
      BY <1>5, <2>1, <2>2
    <2>. QED  BY <2>3 DEF Intact
  <1>. QED  BY <1>1, <1>2, <1>3, <1>4, <1>5 DEF Next, Redact, Emit

(* A turn of the loop that puts x out and leaves rest. *)
LEMMA UncutTurn ==
  ASSUME Types, Types', Uncut, secrets' = secrets, since' = since, written' = written,
         NEW x \in Chars \cup {Redacted}, out' = Append(out, x),
         \A q \in Seq(Chars) :
           Masked(pending \o q, secrets) = <<x>> \o Masked(pending' \o q, secrets)
  PROVE  Uncut'
  <1>. SUFFICES ASSUME \A s \in secrets : since[s] = 0, NEW q \in Seq(Chars)
                PROVE  out' \o Masked(pending' \o q, secrets) = Masked(written \o q, secrets)
    BY DEF Uncut
  <1>1. out \o Masked(pending \o q, secrets) = Masked(written \o q, secrets)
    BY DEF Uncut
  <1>2. PICK m : m = Masked(pending' \o q, secrets)
    OBVIOUS
  <1>3. m \in Seq(Chars \cup {Redacted})
    <2>1. pending' \o q \in Seq(Chars)
      BY DEF Types
    <2>. QED  BY <1>2, <2>1, MaskedIsText DEF Types
  <1>4. out \in Seq(Chars \cup {Redacted}) /\ <<x>> \in Seq(Chars \cup {Redacted})
    BY DEF Types
  <1>5. out \o (<<x>> \o m) = (out \o <<x>>) \o m
    BY <1>3, <1>4, ConcatAssociative
  <1>6. Append(out, x) = out \o <<x>>
    BY <1>4
  <1>. QED  BY <1>1, <1>2, <1>5, <1>6

LEMMA UncutStep == Types /\ Types' /\ Intact /\ Uncut /\ [Next]_vars => Uncut'
  <1>. SUFFICES ASSUME Types, Types', Intact, Uncut, [Next]_vars PROVE Uncut'
    OBVIOUS
  <1>1. CASE UNCHANGED vars
    BY <1>1 DEF Uncut, vars
  <1>2. ASSUME NEW s \in Secrets, AddSecrets(s) PROVE Uncut'
    <2>1. /\ secrets' = secrets \cup {s} /\ since' = [since EXCEPT ![s] = Len(out)]
          /\ pending' = pending /\ out' = out /\ written' = written
      BY <1>2 DEF AddSecrets
    <2>. SUFFICES ASSUME \A t \in secrets' : since'[t] = 0, NEW q \in Seq(Chars)
                  PROVE  out \o Masked(pending \o q, secrets') = Masked(written \o q, secrets')
      BY <2>1 DEF Uncut
    <2>2. Len(out) = 0
      BY <2>1 DEF Types
    <2>3. out = <<>> /\ pending = written
      BY <2>2 DEF Intact, Types
    <2>4. Masked(written \o q, secrets') \in Seq(Chars \cup {Redacted})
      <3>1. written \o q \in Seq(Chars)
        BY DEF Types
      <3>. QED  BY <3>1, MaskedIsText DEF Types
    <2>5. <<>> \o Masked(written \o q, secrets') = Masked(written \o q, secrets')
      BY <2>4
    <2>. QED  BY <2>3, <2>5
  <1>3. ASSUME NEW p \in Chunks, Write(p) PROVE Uncut'
    <2>1. /\ secrets' = secrets /\ since' = since /\ out' = out
          /\ pending' = pending \o p /\ written' = written \o p
      BY <1>3 DEF Write
    <2>. SUFFICES ASSUME \A s \in secrets : since[s] = 0, NEW q \in Seq(Chars)
                  PROVE  out \o Masked((pending \o p) \o q, secrets)
                           = Masked((written \o p) \o q, secrets)
      BY <2>1 DEF Uncut
    <2>2. p \in Seq(Chars) /\ pending \in Seq(Chars) /\ written \in Seq(Chars)
      BY ChunkIsText DEF Types
    <2>3. (pending \o p) \o q = pending \o (p \o q)
      BY <2>2, ConcatAssociative
    <2>4. (written \o p) \o q = written \o (p \o q)
      BY <2>2, ConcatAssociative
    <2>5. p \o q \in Seq(Chars)
      BY <2>2
    <2>6. out \o Masked(pending \o (p \o q), secrets) = Masked(written \o (p \o q), secrets)
      BY <2>5 DEF Uncut
    <2>. QED  BY <2>3, <2>4, <2>6
  <1>4. CASE Pause
    BY <1>4 DEF Pause, Uncut
  <1>5. CASE Redact
    <2>1. PICK s \in LongestMatchAtStart(pending, secrets) : pending' = Rest(pending, Len(s))
      BY <1>5 DEF Redact
    <2>2. /\ secrets \in SUBSET Secrets /\ pending \in Seq(Chars)
          /\ ~CouldGrowIntoSecret(pending, secrets)
      BY <1>5 DEF Redact, Draining, Types
    <2>3. Len(s) \in 1 .. Len(pending)
      BY <2>2, SecretAtStart DEF LongestMatchAtStart
    <2>4. ASSUME NEW q \in Seq(Chars)
          PROVE  Masked(pending \o q, secrets) = <<Redacted>> \o Masked(pending' \o q, secrets)
      <3>1. pending \o q \in Seq(Chars)
        BY <2>2
      <3>2. s \in LongestMatchAtStart(pending \o q, secrets)
        BY <2>2, MatchesSettled DEF LongestMatchAtStart
      <3>3. Rest(pending \o q, Len(s)) = pending' \o q
        BY <2>1, <2>2, <2>3, RestThenMore
      <3>. QED  BY <2>2, <3>1, <3>2, <3>3, MaskedSecret
    <2>5. out' = Append(out, Redacted) /\ UNCHANGED <<secrets, since, written>>
      BY <1>5 DEF Redact
    <2>. QED  BY <2>4, <2>5, UncutTurn
  <1>6. CASE Emit
    <2>1. /\ secrets \in SUBSET Secrets /\ pending \in Seq(Chars) /\ pending # <<>>
          /\ ~CouldGrowIntoSecret(pending, secrets)
          /\ MatchesAtStart(pending, secrets) = {} /\ pending' = Rest(pending, 1)
      BY <1>6 DEF Emit, Draining, Types
    <2>2. 1 \in 1 .. Len(pending) /\ Head(pending) \in Chars
      BY <2>1
    <2>3. ASSUME NEW q \in Seq(Chars)
          PROVE  Masked(pending \o q, secrets) = <<Head(pending)>> \o Masked(pending' \o q, secrets)
      <3>1. pending \o q \in Seq(Chars) /\ pending \o q # <<>>
        BY <2>1
      <3>2. Head(pending \o q) = Head(pending)
        BY <2>1
      <3>3. MatchesAtStart(pending \o q, secrets) = {}
        BY <2>1, MatchesSettled
      <3>4. Rest(pending \o q, 1) = pending' \o q
        BY <2>1, <2>2, RestThenMore
      <3>. QED  BY <2>1, <3>1, <3>2, <3>3, <3>4, MaskedByte
    <2>4. out' = Append(out, Head(pending)) /\ UNCHANGED <<secrets, since, written>>
      BY <1>6 DEF Emit
    <2>. QED  BY <2>2, <2>3, <2>4, UncutTurn
  <1>. QED  BY <1>1, <1>2, <1>3, <1>4, <1>5, <1>6 DEF Next

(* ChunksDoNotMatter: with all secrets known before anything is out, the   *)
(* output and what Close would add to it are the text as a whole, masked   *)
(* from left to right with the longest secret at each place: drainPending  *)
(* holds back exactly what later bytes could change its mind about.        *)
THEOREM MaskedWriterChunksDoNotMatter == Spec => []ChunksDoNotMatter
  <1>1. Init => Intact /\ Uncut
    <2>. SUFFICES ASSUME Init, NEW q \in Seq(Chars)
                  PROVE  out \o Masked(pending \o q, secrets) = Masked(written \o q, secrets)
      BY DEF Init, Intact, Uncut
    <2>1. q = <<>> \o q /\ secrets = {}
      BY DEF Init
    <2>2. Masked(q, secrets) \in Seq(Chars \cup {Redacted})
      BY <2>1, MaskedIsText
    <2>3. <<>> \o Masked(q, secrets) = Masked(q, secrets)
      BY <2>2
    <2>. QED  BY <2>1, <2>3 DEF Init
  <1>2. IInv => Types
    BY DEF IInv
  <1>3. Types /\ Types' /\ Intact /\ Uncut /\ [Next]_vars => Intact' /\ Uncut'
    BY IntactStep, UncutStep
  <1>4. Types /\ Uncut => ChunksDoNotMatter
    <2>. SUFFICES ASSUME Types, Uncut, \A s \in secrets : since[s] = 0
                  PROVE  out \o Masked(pending, secrets) = Masked(written, secrets)
      BY DEF ChunksDoNotMatter
    <2>1. <<>> \in Seq(Chars)
      BY EmptySeq
    <2>2. out \o Masked(pending \o <<>>, secrets) = Masked(written \o <<>>, secrets)
      BY <2>1 DEF Uncut
    <2>3. pending \o <<>> = pending /\ written \o <<>> = written
      BY DEF Types
    <2>. QED  BY <2>2, <2>3
  <1>. QED  BY <1>1, <1>2, <1>3, <1>4, MaskedWriterIInv, PTL DEF Spec
=============================================================================
