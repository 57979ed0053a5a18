---------------------------- MODULE PatchesProofs ----------------------------
(***************************************************************************)
(* What PatchContext.Load and the merge of its result promise of every     *)
(* patches directory, however deep, and of every set of tools.             *)
(***************************************************************************)
EXTENDS Patches, SequenceTheorems, TLAPS

-----------------------------------------------------------------------------
(* The order of places *)
LEMMA LaterAsymmetric ==
  ASSUME NEW p \in Seq(Nat), NEW q \in Seq(Nat), Later(p, q)
  PROVE  ~Later(q, p)
  <1>. SUFFICES ASSUME Later(q, p) PROVE FALSE
    OBVIOUS
  <1>1. PICK i \in DOMAIN p \cap DOMAIN q : p[i] > q[i] /\ \A k \in 1 .. i - 1 : p[k] = q[k]
    BY DEF Later
  <1>2. PICK j \in DOMAIN p \cap DOMAIN q : q[j] > p[j] /\ \A k \in 1 .. j - 1 : q[k] = p[k]
    BY DEF Later
  <1>3. /\ i \in Nat \ {0} /\ j \in Nat \ {0}
        /\ p[i] \in Nat /\ q[i] \in Nat /\ p[j] \in Nat /\ q[j] \in Nat
    OBVIOUS
  <1>4. CASE i < j
    <2>1. i \in 1 .. j - 1
      BY <1>3, <1>4
    <2>. QED  BY <1>1, <1>2, <1>3, <2>1
  <1>5. CASE j < i
    <2>1. j \in 1 .. i - 1
      BY <1>3, <1>5
    <2>. QED  BY <1>1, <1>2, <1>3, <2>1
  <1>6. CASE i = j
    BY <1>1, <1>2, <1>3, <1>6
  <1>. QED  BY <1>3, <1>4, <1>5, <1>6

LEMMA LaterBelow ==
  ASSUME NEW p \in Seq(Nat), NEW q \in Seq(Nat), Later(p, q), NEW n \in Nat
  PROVE  Later(Append(p, n), q) /\ Later(p, Append(q, n))
  <1>1. PICK i \in DOMAIN p \cap DOMAIN q : p[i] > q[i] /\ \A k \in 1 .. i - 1 : p[k] = q[k]
    BY DEF Later
  <1>2. /\ i \in 1 .. Len(p) /\ i \in 1 .. Len(q)
        /\ \A k \in 1 .. i - 1 : k \in 1 .. Len(p) /\ k \in 1 .. Len(q)
    OBVIOUS
  <1>3. /\ i \in DOMAIN Append(p, n) /\ Append(p, n)[i] = p[i]
        /\ \A k \in 1 .. i - 1 : Append(p, n)[k] = p[k]
    BY <1>2
  <1>4. /\ i \in DOMAIN Append(q, n) /\ Append(q, n)[i] = q[i]
        /\ \A k \in 1 .. i - 1 : Append(q, n)[k] = q[k]
    BY <1>2
  <1>5. Later(Append(p, n), q)
    BY <1>1, <1>3 DEF Later
  <1>6. Later(p, Append(q, n))
    BY <1>1, <1>4 DEF Later
  <1>. QED  BY <1>5, <1>6

LEMMA LaterSibling ==
  ASSUME NEW p \in Seq(Nat), NEW i \in Nat, NEW j \in Nat, i < j
  PROVE  Later(Append(p, j), Append(p, i))
  <1>1. PICK n \in Nat : n = Len(p) + 1
    OBVIOUS
  <1>2. /\ n \in DOMAIN Append(p, j) /\ Append(p, j)[n] = j
        /\ n \in DOMAIN Append(p, i) /\ Append(p, i)[n] = i
        /\ \A k \in 1 .. n - 1 : Append(p, j)[k] = Append(p, i)[k]
    BY <1>1
  <1>. QED  BY <1>2 DEF Later

(* A place in a later folder is later. *)
LEMMA LaterFolder ==
  ASSUME NEW p \in Seq(Nat), NEW q \in Seq(Nat), p # <<>>, q # <<>>, p[1] > q[1]
  PROVE  Later(p, q)
  <1>1. Len(p) >= 1 /\ Len(q) >= 1 /\ Len(p) \in Nat /\ Len(q) \in Nat
    OBVIOUS
  <1>2. 1 \in DOMAIN p \cap DOMAIN q /\ \A k \in 1 .. 1 - 1 : p[k] = q[k]
    BY <1>1
  <1>. QED  BY <1>2 DEF Later

-----------------------------------------------------------------------------
(* What loadFile makes of a file *)
LEMMA SopsContent ==
  ASSUME NEW body, IsBody(body), NEW c, c = Sops(body)
  PROVE  /\ c.ok <=> ~(Has(body, "enc") /\ "sops" \in tools /\ "key" \notin tools)
         /\ c.ok =>
              /\ IsBody(c.body) /\ DOMAIN c.body = DOMAIN body
              /\ \A i \in DOMAIN body :
                   /\ c.body[i].kind = body[i].kind
                   /\ DOMAIN c.body[i].set = DOMAIN body[i].set
                   /\ \A f \in DOMAIN body[i].set :
                        LET v == body[i].set[f]
                            w == IF "sops" \in tools THEN Decrypted(v) ELSE v
                        IN /\ c.body[i].set[f] = w
                           /\ w # v /\ w.form # "number" => w \in c.secrets
  <1>1. CASE ~Has(body, "enc") \/ "sops" \notin tools
    <2>1. c = Content(body, {})
      BY <1>1 DEF Sops
    <2>2. c.ok = TRUE /\ c.body = body
      BY <2>1 DEF Content
    <2>3. ASSUME NEW i \in DOMAIN body, NEW f \in DOMAIN body[i].set, "sops" \in tools
          PROVE  Decrypted(body[i].set[f]) = body[i].set[f]
      BY <1>1, <2>3 DEF Has, Decrypted
    <2>. QED  BY <1>1, <2>2, <2>3
  <1>2. CASE Has(body, "enc") /\ "sops" \in tools /\ "key" \notin tools
    <2>1. c = Failure
      BY <1>2 DEF Sops
    <2>2. c.ok = FALSE
      BY <2>1 DEF Failure
    <2>. QED  BY <1>2, <2>2
  <1>3. CASE Has(body, "enc") /\ "sops" \in tools /\ "key" \in tools
    <2>1. PICK plain : plain = Convert(body, Decrypted)
      OBVIOUS
    <2>2. c = Content(plain, ExtractSecrets(body, plain, "enc"))
      BY <1>3, <2>1 DEF Sops
    <2>3. c.ok = TRUE /\ c.body = plain /\ c.secrets = ExtractSecrets(body, plain, "enc")
      BY <2>2 DEF Content
    <2>4. /\ DOMAIN plain = DOMAIN body
          /\ \A i \in DOMAIN body :
               /\ plain[i].kind = body[i].kind
               /\ plain[i].set = [f \in DOMAIN body[i].set |-> Decrypted(body[i].set[f])]
      BY <2>1 DEF Convert
    <2>5. IsBody(plain)
      <3>1. plain \in Seq({plain[i] : i \in DOMAIN body})
        <4>1. plain = [i \in 1 .. Len(body) |-> plain[i]] /\ Len(body) \in Nat
          BY <2>1 DEF Convert, IsBody
        <4>. QED  BY <2>4, <4>1 DEF IsBody
      <3>2. Len(plain) \in Nat /\ DOMAIN plain = 1 .. Len(plain)
        BY <3>1
      <3>3. \A i \in DOMAIN body :
              plain[i].set = [f \in DOMAIN plain[i].set |-> plain[i].set[f]]
        BY <2>4
      <3>. QED  BY <2>4, <3>2, <3>3 DEF IsBody
    <2>6. ASSUME NEW i \in DOMAIN body, NEW f \in DOMAIN body[i].set,
                 Decrypted(body[i].set[f]) # body[i].set[f],
                 Decrypted(body[i].set[f]).form # "number"
          PROVE  Decrypted(body[i].set[f]) \in c.secrets
      <3>1. body[i].set[f].form = "enc" /\ plain[i].set[f] = Decrypted(body[i].set[f])
        BY <2>4, <2>6 DEF Decrypted
      <3>. QED  BY <2>3, <2>6, <3>1 DEF ExtractSecrets
    <2>7. ASSUME NEW i \in DOMAIN body
          PROVE  /\ c.body[i].kind = body[i].kind /\ DOMAIN c.body[i].set = DOMAIN body[i].set
                 /\ \A f \in DOMAIN body[i].set : c.body[i].set[f] = Decrypted(body[i].set[f])
      <3>1. c.body[i].kind = body[i].kind
        BY <2>3, <2>4
      <3>2. c.body[i].set = [f \in DOMAIN body[i].set |-> Decrypted(body[i].set[f])]
        BY <2>3, <2>4
      <3>. QED  BY <3>1, <3>2
    <2>8. IsBody(c.body) /\ DOMAIN c.body = DOMAIN body /\ c.ok
      BY <2>3, <2>4, <2>5
    <2>. QED  BY <1>3, <2>6, <2>7, <2>8
  <1>. QED  BY <1>1, <1>2, <1>3

LEMMA ValsContent ==
  ASSUME NEW body, IsBody(body), NEW c, c = Vals(body)
  PROVE  /\ c.ok <=> ~(Has(body, "ref") /\ "vals" \notin tools)
         /\ c.ok =>
              /\ IsBody(c.body) /\ DOMAIN c.body = DOMAIN body
              /\ \A i \in DOMAIN body :
                   /\ c.body[i].kind = body[i].kind
                   /\ DOMAIN c.body[i].set = DOMAIN body[i].set
                   /\ \A f \in DOMAIN body[i].set :
                        LET v == body[i].set[f]
                        IN /\ c.body[i].set[f] = Evaluated(v)
                           /\ Evaluated(v) # v /\ Evaluated(v).form # "number" =>
                                Evaluated(v) \in c.secrets
  <1>1. CASE ~Has(body, "ref")
    <2>1. c = Content(body, {})
      BY <1>1 DEF Vals
    <2>2. c.ok = TRUE /\ c.body = body
      BY <2>1 DEF Content
    <2>3. ASSUME NEW i \in DOMAIN body, NEW f \in DOMAIN body[i].set
          PROVE  Evaluated(body[i].set[f]) = body[i].set[f]
      BY <1>1, <2>3 DEF Has, Evaluated
    <2>. QED  BY <1>1, <2>2, <2>3
  <1>2. CASE Has(body, "ref") /\ "vals" \notin tools
    <2>1. c = Failure
      BY <1>2 DEF Vals
    <2>2. c.ok = FALSE
      BY <2>1 DEF Failure
    <2>. QED  BY <1>2, <2>2
  <1>3. CASE Has(body, "ref") /\ "vals" \in tools
    <2>1. PICK value : value = Convert(body, Evaluated)
      OBVIOUS
    <2>2. c = Content(value, ExtractSecrets(body, value, "ref"))
      BY <1>3, <2>1 DEF Vals
    <2>3. c.ok = TRUE /\ c.body = value /\ c.secrets = ExtractSecrets(body, value, "ref")
      BY <2>2 DEF Content
    <2>4. /\ DOMAIN value = DOMAIN body
          /\ \A i \in DOMAIN body :
               /\ value[i].kind = body[i].kind
               /\ value[i].set = [f \in DOMAIN body[i].set |-> Evaluated(body[i].set[f])]
      BY <2>1 DEF Convert
    <2>5. IsBody(value)
      <3>1. value \in Seq({value[i] : i \in DOMAIN body})
        <4>1. value = [i \in 1 .. Len(body) |-> value[i]] /\ Len(body) \in Nat
          BY <2>1 DEF Convert, IsBody
        <4>. QED  BY <2>4, <4>1 DEF IsBody
      <3>2. Len(value) \in Nat /\ DOMAIN value = 1 .. Len(value)
        BY <3>1
      <3>3. \A i \in DOMAIN body :
              value[i].set = [f \in DOMAIN value[i].set |-> value[i].set[f]]
        BY <2>4
      <3>. QED  BY <2>4, <3>2, <3>3 DEF IsBody
    <2>6. ASSUME NEW i \in DOMAIN body, NEW f \in DOMAIN body[i].set,
                 Evaluated(body[i].set[f]) # body[i].set[f],
                 Evaluated(body[i].set[f]).form # "number"
          PROVE  Evaluated(body[i].set[f]) \in c.secrets
      <3>1. body[i].set[f].form = "ref" /\ value[i].set[f] = Evaluated(body[i].set[f])
        BY <2>4, <2>6 DEF Evaluated
      <3>. QED  BY <2>3, <2>6, <3>1 DEF ExtractSecrets
    <2>7. ASSUME NEW i \in DOMAIN body
          PROVE  /\ c.body[i].kind = body[i].kind /\ DOMAIN c.body[i].set = DOMAIN body[i].set
                 /\ \A f \in DOMAIN body[i].set : c.body[i].set[f] = Evaluated(body[i].set[f])
      <3>1. c.body[i].kind = body[i].kind
        BY <2>3, <2>4
      <3>2. c.body[i].set = [f \in DOMAIN body[i].set |-> Evaluated(body[i].set[f])]
        BY <2>3, <2>4
      <3>. QED  BY <3>1, <3>2
    <2>8. IsBody(c.body) /\ DOMAIN c.body = DOMAIN body /\ c.ok
      BY <2>3, <2>4, <2>5
    <2>. QED  BY <1>3, <2>6, <2>7, <2>8
  <1>. QED  BY <1>1, <1>2, <1>3

LEMMA LoadedContent ==
  ASSUME NEW file, IsBody(file.body), NEW c, c = LoadFile(file)
  PROVE  /\ c.ok <=> ~Unreadable(file)
         /\ c.ok =>
              /\ IsBody(c.body) /\ DOMAIN c.body = DOMAIN file.body
              /\ \A i \in DOMAIN file.body :
                   /\ c.body[i].kind = file.body[i].kind
                   /\ c.body[i].set = [f \in DOMAIN file.body[i].set |->
                                         Value(file, file.body[i].set[f])]
                   /\ \A f \in DOMAIN file.body[i].set :
                        Hidden(file, file.body[i].set[f]) =>
                          Value(file, file.body[i].set[f]) \in c.secrets
  <1>1. CASE Template(file)
    <2>1. c = Content(file.body, {})
      BY <1>1 DEF LoadFile
    <2>2. c.ok = TRUE /\ c.body = file.body
      BY <2>1 DEF Content
    <2>3. \A v : Value(file, v) = v /\ ~Hidden(file, v)
      BY <1>1 DEF Value, Hidden
    <2>4. \A i \in DOMAIN file.body :
            file.body[i].set = [f \in DOMAIN file.body[i].set |-> file.body[i].set[f]]
      BY DEF IsBody
    <2>5. ~Unreadable(file)
      BY <1>1 DEF Unreadable
    <2>. QED  BY <2>2, <2>3, <2>4, <2>5
  <1>2. CASE ~Template(file)
    <2>1. PICK s : s = Sops(file.body)
      OBVIOUS
    <2>2. PICK v : v = Vals(s.body)
      OBVIOUS
    <2>3. c = IF s.ok /\ v.ok THEN Content(v.body, s.secrets \cup v.secrets) ELSE Failure
      BY <1>2, <2>1, <2>2 DEF LoadFile
    <2>4. \A x : Opened(file, x) = IF "sops" \in tools THEN Decrypted(x) ELSE x
      BY <1>2 DEF Opened
    <2>5. \A x : Value(file, x) = Evaluated(Opened(file, x))
      BY <1>2 DEF Value
    <2>6. s.ok <=> ~(Has(file.body, "enc") /\ "sops" \in tools /\ "key" \notin tools)
      BY <2>1, SopsContent
    <2>7. CASE ~s.ok
      <3>1. c = Failure
        BY <2>3, <2>7
      <3>2. c.ok = FALSE
        BY <3>1 DEF Failure
      <3>3. Unreadable(file)
        BY <1>2, <2>6, <2>7 DEF Unreadable
      <3>. QED  BY <3>2, <3>3
    <2>8. CASE s.ok
      <3>1. /\ IsBody(s.body) /\ DOMAIN s.body = DOMAIN file.body
            /\ \A i \in DOMAIN file.body :
                 /\ s.body[i].kind = file.body[i].kind
                 /\ DOMAIN s.body[i].set = DOMAIN file.body[i].set
                 /\ \A f \in DOMAIN file.body[i].set :
                      /\ s.body[i].set[f] = Opened(file, file.body[i].set[f])
                      /\ /\ Opened(file, file.body[i].set[f]) # file.body[i].set[f]
                         /\ Opened(file, file.body[i].set[f]).form # "number"
                         => Opened(file, file.body[i].set[f]) \in s.secrets
        BY <2>1, <2>4, <2>8, SopsContent
      <3>2. v.ok <=> ~(Has(s.body, "ref") /\ "vals" \notin tools)
        BY <2>2, <3>1, ValsContent
      <3>3. Has(s.body, "ref") <=>
              \E i \in DOMAIN file.body : \E f \in DOMAIN file.body[i].set :
                Opened(file, file.body[i].set[f]).form = "ref"
        BY <3>1 DEF Has
      <3>4. v.ok <=> ~Unreadable(file)
        BY <1>2, <2>6, <2>8, <3>2, <3>3 DEF Unreadable
      <3>5. CASE ~v.ok
        <4>1. c = Failure
          BY <2>3, <3>5
        <4>2. c.ok = FALSE
          BY <4>1 DEF Failure
        <4>. QED  BY <3>4, <3>5, <4>2
      <3>6. CASE v.ok
        <4>1. c = Content(v.body, s.secrets \cup v.secrets)
          BY <2>3, <2>8, <3>6
        <4>2. c.ok = TRUE /\ c.body = v.body /\ c.secrets = s.secrets \cup v.secrets
          BY <4>1 DEF Content
        <4>3. /\ IsBody(v.body) /\ DOMAIN v.body = DOMAIN s.body
              /\ \A i \in DOMAIN s.body :
                   /\ v.body[i].kind = s.body[i].kind
                   /\ DOMAIN v.body[i].set = DOMAIN s.body[i].set
                   /\ \A f \in DOMAIN s.body[i].set :
                        /\ v.body[i].set[f] = Evaluated(s.body[i].set[f])
                        /\ /\ Evaluated(s.body[i].set[f]) # s.body[i].set[f]
                           /\ Evaluated(s.body[i].set[f]).form # "number"
                           => Evaluated(s.body[i].set[f]) \in v.secrets
          BY <2>2, <3>1, <3>6, ValsContent
        <4>4. ASSUME NEW i \in DOMAIN file.body
              PROVE  /\ c.body[i].kind = file.body[i].kind
                     /\ c.body[i].set = [f \in DOMAIN file.body[i].set |->
                                           Value(file, file.body[i].set[f])]
          <5>1. /\ DOMAIN v.body[i].set = DOMAIN file.body[i].set
                /\ \A f \in DOMAIN file.body[i].set :
                     v.body[i].set[f] = Value(file, file.body[i].set[f])
            BY <2>5, <3>1, <4>3
          <5>2. v.body[i].set = [f \in DOMAIN v.body[i].set |-> v.body[i].set[f]]
            BY <3>1, <4>3 DEF IsBody
          <5>. QED  BY <3>1, <4>2, <4>3, <5>1, <5>2
        <4>5. ASSUME NEW i \in DOMAIN file.body, NEW f \in DOMAIN file.body[i].set,
                     Hidden(file, file.body[i].set[f])
              PROVE  Value(file, file.body[i].set[f]) \in c.secrets
          <5>1. PICK x : x = file.body[i].set[f]
            OBVIOUS
          <5>2. PICK y : y = Opened(file, x)
            OBVIOUS
          <5>3. Value(file, x) = Evaluated(y) /\ s.body[i].set[f] = y
            BY <2>5, <3>1, <5>1, <5>2
          <5>4. Evaluated(y) # x /\ Evaluated(y).form # "number"
            BY <4>5, <5>1, <5>3 DEF Hidden
          <5>5. CASE Evaluated(y) # y
            <6>1. Evaluated(y) \in v.secrets
              BY <3>1, <4>3, <5>3, <5>4, <5>5
            <6>. QED  BY <4>2, <5>1, <5>3, <6>1
          <5>6. CASE Evaluated(y) = y
            <6>1. y \in s.secrets
              BY <3>1, <5>1, <5>2, <5>4, <5>6
            <6>. QED  BY <4>2, <5>1, <5>3, <5>6, <6>1
          <5>. QED  BY <5>5, <5>6
        <4>. QED  BY <3>1, <3>4, <3>6, <4>2, <4>3, <4>4, <4>5
      <3>. QED  BY <3>5, <3>6
    <2>. QED  BY <2>7, <2>8
  <1>. QED  BY <1>1, <1>2

-----------------------------------------------------------------------------
(* Sequences of places, and of what has a place *)
In(s) == {s[i] : i \in DOMAIN s}
At(s) == [i \in DOMAIN s |-> s[i].at]
Rising(s) == \A i \in DOMAIN s, j \in DOMAIN s : i < j => Later(s[j], s[i])
Precede(A, B) == \A a \in A, b \in B : Later(b, a)

LEMMA HeadAndTail ==
  ASSUME NEW S, NEW s \in Seq(S), s # <<>>
  PROVE  /\ Head(s) \in S /\ Tail(s) \in Seq(S)
         /\ In(s) = {Head(s)} \cup In(Tail(s))
  <1>1. Len(s) \in Nat \ {0} /\ DOMAIN s = 1 .. Len(s)
    OBVIOUS
  <1>2. /\ Head(s) = s[1] /\ Tail(s) \in Seq(S) /\ DOMAIN Tail(s) = 1 .. Len(s) - 1
        /\ \A i \in 1 .. Len(s) - 1 : Tail(s)[i] = s[i + 1]
    BY <1>1
  <1>3. ASSUME NEW i \in DOMAIN s PROVE s[i] \in {Head(s)} \cup In(Tail(s))
    <2>1. CASE i = 1
      BY <1>2, <2>1
    <2>2. CASE i # 1
      <3>1. i - 1 \in 1 .. Len(s) - 1 /\ (i - 1) + 1 = i
        BY <1>1, <2>2
      <3>2. Tail(s)[i - 1] = s[i]
        BY <1>2, <3>1
      <3>. QED  BY <1>2, <3>1, <3>2 DEF In
    <2>. QED  BY <2>1, <2>2
  <1>4. ASSUME NEW i \in DOMAIN Tail(s) PROVE Tail(s)[i] \in In(s)
    <2>1. i + 1 \in DOMAIN s /\ Tail(s)[i] = s[i + 1]
      BY <1>1, <1>2
    <2>. QED  BY <2>1 DEF In
  <1>5. Head(s) \in In(s) /\ Head(s) \in S
    BY <1>1, <1>2 DEF In
  <1>. QED  BY <1>2, <1>3, <1>4, <1>5 DEF In

LEMMA InConcat ==
  ASSUME NEW S, NEW s \in Seq(S), NEW t \in Seq(S)
  PROVE  In(s \o t) = In(s) \cup In(t) /\ s \o t \in Seq(S)
  <1>1. PICK u : u = s \o t
    OBVIOUS
  <1>2. /\ Len(s) \in Nat /\ Len(t) \in Nat /\ DOMAIN s = 1 .. Len(s) /\ DOMAIN t = 1 .. Len(t)
        /\ u \in Seq(S) /\ DOMAIN u = 1 .. Len(s) + Len(t)
        /\ \A i \in 1 .. Len(s) : u[i] = s[i]
        /\ \A i \in 1 .. Len(t) : u[Len(s) + i] = t[i]
    BY <1>1
  <1>3. ASSUME NEW i \in DOMAIN u PROVE u[i] \in In(s) \cup In(t)
    <2>1. CASE i <= Len(s)
      <3>1. i \in 1 .. Len(s)
        BY <1>2, <2>1
      <3>. QED  BY <1>2, <3>1 DEF In
    <2>2. CASE i > Len(s)
      <3>1. i - Len(s) \in 1 .. Len(t) /\ Len(s) + (i - Len(s)) = i
        BY <1>2, <2>2
      <3>2. u[i] = t[i - Len(s)]
        BY <1>2, <3>1
      <3>. QED  BY <1>2, <3>1, <3>2 DEF In
    <2>. QED  BY <1>2, <2>1, <2>2
  <1>4. ASSUME NEW i \in DOMAIN s PROVE s[i] \in In(u)
    <2>1. i \in DOMAIN u /\ u[i] = s[i]
      BY <1>2
    <2>. QED  BY <2>1 DEF In
  <1>5. ASSUME NEW i \in DOMAIN t PROVE t[i] \in In(u)
    <2>1. Len(s) + i \in DOMAIN u /\ u[Len(s) + i] = t[i]
      BY <1>2
    <2>. QED  BY <2>1 DEF In
  <1>6. In(u) = In(s) \cup In(t)
    BY <1>3, <1>4, <1>5 DEF In
  <1>. QED  BY <1>1, <1>2, <1>6

LEMMA InOne ==
  ASSUME NEW S, NEW s \in Seq(S), NEW x \in S
  PROVE  In(s \o <<x>>) = In(s) \cup {x} /\ In(<<x>> \o s) = {x} \cup In(s)
  <1>1. PICK u : u = <<x>>
    OBVIOUS
  <1>2. u \in Seq(S) /\ In(u) = {x}
    BY <1>1 DEF In
  <1>3. In(s \o u) = In(s) \cup In(u)
    BY <1>2, InConcat
  <1>4. In(u \o s) = In(u) \cup In(s)
    BY <1>2, InConcat
  <1>. QED  BY <1>1, <1>2, <1>3, <1>4

LEMMA InAppend ==
  ASSUME NEW S, NEW s \in Seq(S), NEW x \in S
  PROVE  In(Append(s, x)) = In(s) \cup {x} /\ Append(s, x) \in Seq(S)
  <1>1. Append(s, x) \in Seq(S) /\ Append(s, x) = s \o <<x>>
    OBVIOUS
  <1>. QED  BY <1>1, InOne

LEMMA InNothing == In(<<>>) = {} /\ Rising(<<>>)
  BY DEF In, Rising

LEMMA TailOfOne ==
  ASSUME NEW S, NEW s \in Seq(S), Len(s) = 1
  PROVE  Tail(s) = <<>>
  <1>1. s # <<>>
    OBVIOUS
  <1>2. Tail(s) \in Seq(S) /\ Len(Tail(s)) = 0
    BY <1>1
  <1>. QED  BY <1>2, EmptySeq

LEMMA RisingTail ==
  ASSUME NEW S, NEW s \in Seq(S), s # <<>>, Rising(s)
  PROVE  Rising(Tail(s)) /\ Precede({Head(s)}, In(Tail(s)))
  <1>1. Len(s) \in Nat \ {0} /\ DOMAIN s = 1 .. Len(s)
    OBVIOUS
  <1>2. /\ Head(s) = s[1] /\ DOMAIN Tail(s) = 1 .. Len(s) - 1
        /\ \A i \in 1 .. Len(s) - 1 : Tail(s)[i] = s[i + 1]
    BY <1>1
  <1>3. ASSUME NEW i \in DOMAIN Tail(s), NEW j \in DOMAIN Tail(s), i < j
        PROVE  Later(Tail(s)[j], Tail(s)[i])
    <2>1. i + 1 \in DOMAIN s /\ j + 1 \in DOMAIN s /\ i + 1 < j + 1
      BY <1>1, <1>2, <1>3
    <2>2. Later(s[j + 1], s[i + 1])
      BY <2>1 DEF Rising
    <2>. QED  BY <1>2, <2>2
  <1>4. ASSUME NEW j \in DOMAIN Tail(s) PROVE Later(Tail(s)[j], Head(s))
    <2>1. 1 \in DOMAIN s /\ j + 1 \in DOMAIN s /\ 1 < j + 1
      BY <1>1, <1>2
    <2>2. Later(s[j + 1], s[1])
      BY <2>1 DEF Rising
    <2>. QED  BY <1>2, <2>2
  <1>5. Rising(Tail(s))
    BY <1>3 DEF Rising
  <1>. QED  BY <1>4, <1>5 DEF Precede, In

LEMMA RisingConcat ==
  ASSUME NEW S, NEW s \in Seq(S), NEW t \in Seq(S), Rising(s), Rising(t),
         Precede(In(s), In(t))
  PROVE  Rising(s \o t)
  <1>1. PICK u : u = s \o t
    OBVIOUS
  <1>2. PICK n \in Nat : n = Len(s)
    OBVIOUS
  <1>3. PICK m \in Nat : m = Len(t)
    OBVIOUS
  <1>4. /\ DOMAIN s = 1 .. n /\ DOMAIN t = 1 .. m /\ DOMAIN u = 1 .. n + m
        /\ \A i \in 1 .. n : u[i] = s[i]
        /\ \A i \in 1 .. m : u[n + i] = t[i]
    BY <1>1, <1>2, <1>3
  <1>5. ASSUME NEW i \in DOMAIN u, NEW j \in DOMAIN u, i < j PROVE Later(u[j], u[i])
    <2>1. CASE j <= n
      <3>1. i \in 1 .. n /\ j \in 1 .. n
        BY <1>4, <1>5, <2>1
      <3>. QED  BY <1>4, <1>5, <3>1 DEF Rising
    <2>2. CASE i <= n /\ n < j
      <3>1. PICK k \in 1 .. m : j = n + k
        <4>1. j - n \in 1 .. m /\ j = n + (j - n)
          BY <1>4, <2>2
        <4>. QED  BY <4>1
      <3>2. i \in 1 .. n
        BY <1>4, <2>2
      <3>3. u[i] \in In(s) /\ u[j] \in In(t)
        BY <1>4, <3>1, <3>2 DEF In
      <3>. QED  BY <3>3 DEF Precede
    <2>3. CASE n < i
      <3>1. PICK k \in 1 .. m : i = n + k
        <4>1. i - n \in 1 .. m /\ i = n + (i - n)
          BY <1>4, <2>3
        <4>. QED  BY <4>1
      <3>2. PICK l \in 1 .. m : j = n + l
        <4>1. j - n \in 1 .. m /\ j = n + (j - n)
          BY <1>4, <1>5, <2>3
        <4>. QED  BY <4>1
      <3>3. k < l /\ u[i] = t[k] /\ u[j] = t[l]
        BY <1>4, <1>5, <3>1, <3>2
      <3>. QED  BY <1>4, <3>3 DEF Rising
    <2>. QED  BY <1>4, <1>5, <2>1, <2>2, <2>3
  <1>. QED  BY <1>1, <1>5 DEF Rising

LEMMA RisingOne == ASSUME NEW x PROVE Rising(<<x>>) /\ In(<<x>>) = {x}
  BY DEF Rising, In

(* What is below a place stands where the place stood. *)
LEMMA Below ==
  ASSUME NEW p \in Seq(Nat), NEW n \in Nat, NEW s, s = [i \in 1 .. n |-> Append(p, i)]
  PROVE  /\ s \in Seq(Seq(Nat)) /\ Rising(s)
         /\ \A A \in SUBSET Seq(Nat) : Precede(A, {p}) => Precede(A, In(s))
         /\ \A A \in SUBSET Seq(Nat) : Precede({p}, A) => Precede(In(s), A)
  <1>1. \A i \in 1 .. n : Append(p, i) \in Seq(Nat) /\ i \in Nat
    OBVIOUS
  <1>2. Rising(s)
    <2>. SUFFICES ASSUME NEW i \in 1 .. n, NEW j \in 1 .. n, i < j
                  PROVE  Later(Append(p, j), Append(p, i))
      BY DEF Rising
    <2>. QED  BY LaterSibling
  <1>3. ASSUME NEW A \in SUBSET Seq(Nat), Precede(A, {p}) PROVE Precede(A, In(s))
    <2>. SUFFICES ASSUME NEW a \in A, NEW i \in 1 .. n PROVE Later(Append(p, i), a)
      BY DEF Precede, In
    <2>1. Later(p, a) /\ a \in Seq(Nat)
      BY <1>3 DEF Precede
    <2>. QED  BY <1>1, <2>1, LaterBelow
  <1>4. ASSUME NEW A \in SUBSET Seq(Nat), Precede({p}, A) PROVE Precede(In(s), A)
    <2>. SUFFICES ASSUME NEW a \in A, NEW i \in 1 .. n PROVE Later(a, Append(p, i))
      BY DEF Precede, In
    <2>1. Later(a, p) /\ a \in Seq(Nat)
      BY <1>4 DEF Precede
    <2>. QED  BY <1>1, <2>1, LaterBelow
  <1>5. s \in Seq(Seq(Nat))
    BY <1>1
  <1>. QED  BY <1>2, <1>3, <1>4, <1>5

(* The places of a sequence of documents. *)
LEMMA AtAppend ==
  ASSUME NEW S, NEW s \in Seq(S), NEW x \in S
  PROVE  At(Append(s, x)) = At(s) \o <<x.at>>
  <1>1. PICK n \in Nat : n = Len(s)
    OBVIOUS
  <1>2. /\ DOMAIN s = 1 .. n /\ DOMAIN Append(s, x) = 1 .. n + 1
        /\ \A i \in 1 .. n : Append(s, x)[i] = s[i]
        /\ Append(s, x)[n + 1] = x
    BY <1>1
  <1>3. PICK T : T = {s[i].at : i \in DOMAIN s} \cup {x.at}
    OBVIOUS
  <1>4. At(s) = [i \in 1 .. n |-> s[i].at] /\ \A i \in 1 .. n : s[i].at \in T
    BY <1>2, <1>3 DEF At
  <1>5. At(s) \in Seq(T) /\ Len(At(s)) = n
    BY <1>4
  <1>6. x.at \in T
    BY <1>3
  <1>7. PICK v : v = At(s) \o <<x.at>>
    OBVIOUS
  <1>8. /\ v \in Seq(T) /\ Len(v) = n + 1
        /\ \A i \in 1 .. n : v[i] = At(s)[i]
        /\ v[n + 1] = x.at
    BY <1>5, <1>6, <1>7
  <1>9. PICK w : w = At(Append(s, x))
    OBVIOUS
  <1>10. w = [i \in 1 .. n + 1 |-> Append(s, x)[i].at]
    BY <1>2, <1>9 DEF At
  <1>11. ASSUME NEW i \in 1 .. n + 1 PROVE w[i] = v[i]
    <2>1. CASE i \in 1 .. n
      BY <1>2, <1>4, <1>8, <1>10, <2>1
    <2>2. CASE i = n + 1
      BY <1>2, <1>8, <1>10, <2>2
    <2>. QED  BY <2>1, <2>2
  <1>12. v = [i \in 1 .. n + 1 |-> v[i]]
    BY <1>8
  <1>13. w = [i \in 1 .. n + 1 |-> w[i]]
    BY <1>10
  <1>14. w = v
    BY <1>11, <1>12, <1>13
  <1>. QED  BY <1>7, <1>9, <1>14

LEMMA AtTail ==
  ASSUME NEW S, NEW s \in Seq(S), s # <<>>
  PROVE  At(Tail(s)) = Tail(At(s)) /\ Head(At(s)) = Head(s).at /\ At(s) # <<>>
  <1>1. PICK n \in Nat : n = Len(s)
    OBVIOUS
  <1>2. /\ n >= 1 /\ DOMAIN s = 1 .. n /\ DOMAIN Tail(s) = 1 .. n - 1 /\ Head(s) = s[1]
        /\ \A i \in 1 .. n - 1 : Tail(s)[i] = s[i + 1]
    BY <1>1
  <1>3. PICK T : T = {s[i].at : i \in DOMAIN s}
    OBVIOUS
  <1>4. At(s) = [i \in 1 .. n |-> s[i].at] /\ \A i \in 1 .. n : s[i].at \in T
    BY <1>2, <1>3 DEF At
  <1>5. At(s) \in Seq(T) /\ Len(At(s)) = n
    BY <1>4
  <1>6. PICK t : t = Tail(At(s))
    OBVIOUS
  <1>7. /\ t \in Seq(T) /\ Len(t) = n - 1
        /\ \A i \in 1 .. n - 1 : t[i] = At(s)[i + 1]
    BY <1>2, <1>5, <1>6
  <1>8. PICK w : w = At(Tail(s))
    OBVIOUS
  <1>9. w = [i \in 1 .. n - 1 |-> Tail(s)[i].at]
    BY <1>2, <1>8 DEF At
  <1>10. ASSUME NEW i \in 1 .. n - 1 PROVE w[i] = t[i]
    <2>1. i + 1 \in 1 .. n
      BY <1>2
    <2>2. w[i] = s[i + 1].at
      BY <1>2, <1>9
    <2>3. At(s)[i + 1] = s[i + 1].at
      BY <1>4, <2>1
    <2>. QED  BY <1>7, <2>2, <2>3
  <1>11. t = [i \in 1 .. n - 1 |-> t[i]]
    <2>1. DOMAIN t = 1 .. n - 1
      BY <1>2, <1>7
    <2>2. t = [i \in DOMAIN t |-> t[i]]
      BY <1>7
    <2>. QED  BY <2>1, <2>2
  <1>12. w = t
    <2>1. w = [i \in 1 .. n - 1 |-> w[i]]
      BY <1>9
    <2>. QED  BY <1>10, <1>11, <2>1
  <1>13. At(s) # <<>> /\ Head(At(s)) = At(s)[1] /\ 1 \in 1 .. n
    BY <1>2, <1>5
  <1>. QED  BY <1>2, <1>4, <1>6, <1>8, <1>12, <1>13

-----------------------------------------------------------------------------
(* Types: what is visited is in the tree, what is queued is a file that is *)
(* wanted, and documents and patches are what the reference says of them.  *)
Types ==
  /\ IsTree(tree)
  /\ folder \in 1 .. 4
  /\ agenda \in Seq(DOMAIN tree) /\ queue \in Seq(Files)
  /\ docs \in Seq(Documents) /\ patches \in Seq(AllPatches)
  /\ merged \in Nat
  /\ outcome \in {"loading", "merging", "ok", "error"}
  /\ Loading => /\ patches \in Seq(Documents)
                /\ merged = 0 /\ cfg = [f \in {} |-> {}]

LEMMA SameTree ==
  ASSUME [Next]_vars
  PROVE  /\ tree' = tree /\ tools' = tools
         /\ Files' = Files /\ Documents' = Documents /\ AllPatches' = AllPatches
  <1>1. tree' = tree /\ tools' = tools
    BY DEF Next, vars, WalkFolder, VisitDirectory, VisitFile, VisitNothing, VisitDenied,
           ReadFile, ParseDocument, Return, Apply, NewBundle, Fail
  <1>2. Files' = Files
    BY <1>1 DEF Files
  <1>3. Documents' = Documents
    BY <1>1, <1>2 DEF Documents, Document, Value, Opened
  <1>4. AllPatches' = AllPatches
    BY <1>3 DEF AllPatches
  <1>. QED  BY <1>1, <1>2, <1>3, <1>4

LEMMA InstallerIn == InstallerPatch \in AllPatches
  BY Zenon DEF AllPatches

LEMMA PlaceInTree ==
  ASSUME IsTree(tree), NEW p \in DOMAIN tree
  PROVE  p \in Seq(Nat) /\ p # <<>> /\ p[1] \in Folders
  BY DEF IsTree

LEMMA PlaceOfDocument ==
  ASSUME IsTree(tree), NEW d \in Documents
  PROVE  d.at \in Seq(Nat) /\ d.at # <<>> /\ d.at[1] \in Folders
  <1>0. PICK p \in Files : \E i \in DOMAIN tree[p].body : d = Document(p, i)
    BY DEF Documents
  <1>1. PICK i \in DOMAIN tree[p].body : d = Document(p, i)
    BY <1>0
  <1>2. p \in Seq(Nat) /\ p # <<>> /\ p[1] \in Folders
    BY PlaceInTree DEF Files
  <1>3. d.at = Append(p, i)
    BY <1>1 DEF Document
  <1>4. i \in Nat
    BY DEF IsTree, IsBody, Files
  <1>5. Append(p, i) \in Seq(Nat) /\ Append(p, i) # <<>> /\ Append(p, i)[1] = p[1]
    <2>1. Append(p, i) \in Seq(Nat) /\ Len(Append(p, i)) = Len(p) + 1 /\ Len(p) \in Nat
      BY <1>2, <1>4
    <2>2. Append(p, i) # <<>>
      BY <2>1
    <2>3. 1 \in 1 .. Len(p)
      BY <1>2
    <2>. QED  BY <1>2, <1>4, <2>1, <2>2, <2>3
  <1>. QED  BY <1>2, <1>3, <1>5

LEMMA FileBody ==
  ASSUME IsTree(tree), NEW p \in Files
  PROVE  /\ p \in DOMAIN tree /\ IsBody(tree[p].body)
         /\ \A i \in DOMAIN tree[p].body : Document(p, i) \in Documents
  <1>1. p \in DOMAIN tree /\ IsBody(tree[p].body)
    BY DEF IsTree, Files
  <1>2. \A i \in DOMAIN tree[p].body : Document(p, i) \in Documents
    BY DEF Documents
  <1>. QED  BY <1>1, <1>2

(* A file that is read gives its documents and what is hidden in it. *)
LEMMA FileRead ==
  ASSUME Types, ReadFile, ~Fail
  PROVE  LET p == Head(queue)
         IN /\ p \in Files /\ ~Unreadable(tree[p])
            /\ docs' = [i \in DOMAIN tree[p].body |-> Document(p, i)]
            /\ docs' \in Seq(Documents)
            /\ queue' = Tail(queue)
            /\ secrets \subseteq secrets'
            /\ \A i \in DOMAIN tree[p].body : \A f \in DOMAIN tree[p].body[i].set :
                 LET v == tree[p].body[i].set[f]
                 IN Hidden(tree[p], v) => Value(tree[p], v) \in secrets'
  <1>1. PICK p : p = Head(queue)
    OBVIOUS
  <1>2. p \in Files
    BY <1>1, HeadAndTail DEF Types, ReadFile
  <1>3. IsBody(tree[p].body)
    BY <1>2, FileBody DEF Types
  <1>4. PICK c : c = LoadFile(tree[p])
    OBVIOUS
  <1>5. /\ c.ok
        /\ docs' = [i \in DOMAIN c.body |->
                      [at |-> Append(p, i), kind |-> c.body[i].kind, set |-> c.body[i].set]]
        /\ secrets' = secrets \cup c.secrets /\ queue' = Tail(queue)
    BY <1>1, <1>4 DEF ReadFile
  <1>6. /\ ~Unreadable(tree[p])
        /\ DOMAIN c.body = DOMAIN tree[p].body
        /\ \A i \in DOMAIN tree[p].body :
             /\ c.body[i].kind = tree[p].body[i].kind
             /\ c.body[i].set = [f \in DOMAIN tree[p].body[i].set |->
                                   Value(tree[p], tree[p].body[i].set[f])]
             /\ \A f \in DOMAIN tree[p].body[i].set :
                  Hidden(tree[p], tree[p].body[i].set[f]) =>
                    Value(tree[p], tree[p].body[i].set[f]) \in c.secrets
    <2>1. PICK file : file = tree[p]
      OBVIOUS
    <2>2. IsBody(file.body) /\ c = LoadFile(file) /\ c.ok
      BY <1>3, <1>4, <1>5, <2>1
    <2>3. /\ ~Unreadable(file)
          /\ DOMAIN c.body = DOMAIN file.body
          /\ \A i \in DOMAIN file.body :
               /\ c.body[i].kind = file.body[i].kind
               /\ c.body[i].set = [f \in DOMAIN file.body[i].set |->
                                     Value(file, file.body[i].set[f])]
               /\ \A f \in DOMAIN file.body[i].set :
                    Hidden(file, file.body[i].set[f]) =>
                      Value(file, file.body[i].set[f]) \in c.secrets
      BY <2>2, LoadedContent
    <2>. QED  BY <2>1, <2>3
  <1>7. docs' = [i \in DOMAIN tree[p].body |-> Document(p, i)]
    <2>1. \A i \in DOMAIN tree[p].body :
            [at |-> Append(p, i), kind |-> c.body[i].kind, set |-> c.body[i].set] = Document(p, i)
      BY <1>6 DEF Document
    <2>. QED  BY <1>5, <1>6, <2>1
  <1>8. docs' \in Seq(Documents)
    <2>1. /\ Len(tree[p].body) \in Nat /\ DOMAIN tree[p].body = 1 .. Len(tree[p].body)
          /\ \A i \in DOMAIN tree[p].body : Document(p, i) \in Documents
      BY <1>2, <1>3, FileBody DEF IsBody, Types
    <2>. QED  BY <1>7, <2>1
  <1>. QED  BY <1>1, <1>2, <1>5, <1>6, <1>7, <1>8

LEMMA EntriesInTree ==
  ASSUME IsTree(tree), NEW p \in DOMAIN tree, tree[p].kind = "dir"
  PROVE  EntriesOf(p) \in Seq(DOMAIN tree) /\ tree[p].size \in Nat
  <1>1. tree[p].size \in Nat /\ \A i \in 1 .. tree[p].size : Append(p, i) \in DOMAIN tree
    BY DEF IsTree
  <1>2. PICK n \in Nat : n = tree[p].size
    BY <1>1
  <1>3. PICK S : S = DOMAIN tree
    OBVIOUS
  <1>4. \A i \in 1 .. n : Append(p, i) \in S
    BY <1>1, <1>2, <1>3
  <1>5. PICK e : e = EntriesOf(p)
    OBVIOUS
  <1>6. e = [i \in 1 .. n |-> Append(p, i)]
    BY <1>2, <1>5 DEF EntriesOf
  <1>7. \A i \in 1 .. n : e[i] \in S
    BY <1>4, <1>6
  <1>8. e = [i \in 1 .. n |-> e[i]]
    BY <1>6
  <1>9. e \in Seq(S)
    BY <1>7, <1>8
  <1>. QED  BY <1>2, <1>3, <1>5, <1>9

LEMMA TypesInit == Init => Types
  <1>. SUFFICES ASSUME Init PROVE Types
    OBVIOUS
  <1>1. IsTree(tree)
    BY PatchesAssumption DEF Init
  <1>2. <<>> \in Seq(DOMAIN tree) /\ <<>> \in Seq(Files)
    BY EmptySeq
  <1>3. <<>> \in Seq(Documents) /\ <<>> \in Seq(AllPatches)
    BY EmptySeq
  <1>. QED  BY <1>1, <1>2, <1>3 DEF Init, Types

LEMMA TypesFail ==
  ASSUME Types, Fail, Files' = Files, Documents' = Documents, AllPatches' = AllPatches
  PROVE  Types'
  <1>1. <<>> \in Seq(DOMAIN tree) /\ <<>> \in Seq(Files)
    BY EmptySeq
  <1>2. <<>> \in Seq(Documents) /\ <<>> \in Seq(AllPatches)
    BY EmptySeq
  <1>3. tree' = tree /\ outcome' = "error" /\ folder' = folder /\ merged' = merged
    BY DEF Fail
  <1>4. agenda' = <<>> /\ queue' = <<>> /\ docs' = <<>> /\ patches' = <<>>
    BY DEF Fail
  <1>. QED  BY <1>1, <1>2, <1>3, <1>4 DEF Types, Loading

LEMMA TypesStep == Types /\ [Next]_vars => Types'
  <1>. SUFFICES ASSUME Types, [Next]_vars PROVE Types'
    OBVIOUS
  <1>0. /\ tree' = tree /\ tools' = tools
        /\ Files' = Files /\ Documents' = Documents /\ AllPatches' = AllPatches
    BY SameTree
  <1>. USE DEF Loading
  <1>1. CASE UNCHANGED vars
    BY <1>0, <1>1 DEF Types, vars, walk
  <1>2. CASE WalkFolder
    <2>1. <<folder>> \in DOMAIN tree /\ folder + 1 \in 1 .. 4
      <3>1. folder \in Folders
        BY <1>2 DEF WalkFolder
      <3>2. <<folder>> \in DOMAIN tree
        BY <3>1 DEF Types, IsTree
      <3>. QED  BY <3>1, <3>2 DEF Folders
    <2>2. <<<<folder>>>> \in Seq(DOMAIN tree)
      BY <2>1
    <2>. QED  BY <1>0, <1>2, <2>1, <2>2 DEF WalkFolder, Types
  <1>3. CASE VisitDirectory
    <2>1. Head(agenda) \in DOMAIN tree /\ Tail(agenda) \in Seq(DOMAIN tree)
      BY <1>3, HeadAndTail DEF VisitDirectory, Visits, Types
    <2>2. EntriesOf(Head(agenda)) \in Seq(DOMAIN tree)
      BY <1>3, <2>1, EntriesInTree DEF VisitDirectory, Visits, Types
    <2>3. agenda' \in Seq(DOMAIN tree)
      BY <1>3, <2>1, <2>2, InConcat DEF VisitDirectory
    <2>. QED  BY <1>0, <1>3, <2>3 DEF VisitDirectory, Types
  <1>4. CASE VisitFile
    <2>1. Head(agenda) \in DOMAIN tree /\ Tail(agenda) \in Seq(DOMAIN tree)
      BY <1>4, HeadAndTail DEF VisitFile, Visits, Types
    <2>2. queue' \in Seq(Files)
      <3>1. CASE Matches(tree[Head(agenda)])
        <4>1. Head(agenda) \in Files
          BY <1>4, <2>1, <3>1 DEF Files, VisitFile, Visits
        <4>2. Append(queue, Head(agenda)) \in Seq(Files)
          BY <4>1 DEF Types
        <4>. QED  BY <1>4, <3>1, <4>2 DEF VisitFile
      <3>2. CASE ~Matches(tree[Head(agenda)])
        BY <1>4, <3>2 DEF VisitFile, Types
      <3>. QED  BY <3>1, <3>2
    <2>. QED  BY <1>0, <1>4, <2>1, <2>2 DEF VisitFile, Types
  <1>5. CASE VisitNothing
    <2>1. <<>> \in Seq(DOMAIN tree) /\ <<>> \in Seq(Files)
      BY EmptySeq
    <2>. QED  BY <1>0, <1>5, <2>1 DEF VisitNothing, Types
  <1>6. CASE Fail
    BY <1>0, <1>6, TypesFail
  <1>7. CASE ReadFile /\ ~Fail
    <2>1. docs' \in Seq(Documents) /\ queue' = Tail(queue)
      BY <1>7, FileRead
    <2>2. Tail(queue) \in Seq(Files)
      BY <1>7, HeadAndTail DEF ReadFile, Types
    <2>3. UNCHANGED <<tree, tools, folder, agenda, patches, merged, cfg, outcome>>
      BY <1>7 DEF ReadFile
    <2>. QED  BY <1>0, <2>1, <2>2, <2>3 DEF Types
  <1>8. CASE ParseDocument /\ ~Fail
    <2>1. Head(docs) \in Documents /\ Tail(docs) \in Seq(Documents)
      BY <1>8, HeadAndTail DEF ParseDocument, Types
    <2>2. /\ docs' = Tail(docs) /\ ~Rejected(Head(docs))
          /\ patches' = IF Skipped(Head(docs)) THEN patches ELSE Append(patches, Head(docs))
          /\ UNCHANGED <<tree, tools, folder, agenda, queue, secrets, merged, cfg, outcome>>
          /\ Loading
      BY <1>8 DEF ParseDocument
    <2>3. patches' \in Seq(AllPatches) /\ patches' \in Seq(Documents)
      <3>1. CASE Skipped(Head(docs))
        BY <2>2, <3>1 DEF Types
      <3>2. CASE ~Skipped(Head(docs))
        <4>1. Head(docs) \in AllPatches
          BY <2>1, <2>2, <3>2 DEF Rejected, Skipped, AllPatches
        <4>2. patches \in Seq(AllPatches) /\ patches \in Seq(Documents)
          BY <2>2 DEF Types
        <4>3. /\ Append(patches, Head(docs)) \in Seq(AllPatches)
              /\ Append(patches, Head(docs)) \in Seq(Documents)
          BY <2>1, <4>1, <4>2
        <4>. QED  BY <2>2, <3>2, <4>3
      <3>. QED  BY <3>1, <3>2
    <2>. QED  BY <1>0, <2>1, <2>2, <2>3 DEF Types
  <1>9. CASE Return
    <2>1. InstallerPatch \in AllPatches
      BY DEF AllPatches
    <2>2. <<InstallerPatch>> \o patches \in Seq(AllPatches)
      BY <2>1 DEF Types
    <2>3. /\ patches' = <<InstallerPatch>> \o patches /\ outcome' = "merging"
          /\ UNCHANGED <<folder, agenda, queue, docs, merged>>
      BY <1>9 DEF Return, walk
    <2>. QED  BY <1>0, <2>2, <2>3 DEF Types
  <1>10. CASE Apply
    BY <1>0, <1>10 DEF Apply, Types, walk
  <1>11. CASE NewBundle
    BY <1>0, <1>11 DEF NewBundle, Types, walk
  <1>. QED
    BY <1>1, <1>2, <1>3, <1>4, <1>5, <1>6, <1>7, <1>8, <1>9, <1>10, <1>11
       DEF Next, VisitDenied

-----------------------------------------------------------------------------
(* Order: patches, the documents at hand, the files queued and what is on  *)
(* the agenda follow one another, each in the order of the reference.      *)
PatchPlaces == In(At(patches))
DocPlaces == In(At(docs))

Ordered ==
  /\ Rising(At(patches)) /\ Rising(At(docs)) /\ Rising(queue) /\ Rising(agenda)
  /\ Precede(PatchPlaces, DocPlaces \cup In(queue) \cup In(agenda))
  /\ Precede(DocPlaces, In(queue))
  /\ Precede(In(queue), In(agenda))
  /\ docs # <<>> => agenda = <<>>
  /\ \A p \in PatchPlaces \cup DocPlaces \cup In(queue) \cup In(agenda) : p[1] < folder

LEMMA AtPlaces ==
  ASSUME NEW S, NEW s \in Seq(S), \A x \in S : x.at \in Seq(Nat) /\ x.at # <<>>
  PROVE  At(s) \in Seq(Seq(Nat)) /\ \A p \in In(At(s)) : p \in Seq(Nat) /\ p # <<>>
  <1>1. PICK n \in Nat : n = Len(s)
    OBVIOUS
  <1>2. DOMAIN s = 1 .. n /\ \A i \in 1 .. n : s[i] \in S
    BY <1>1
  <1>3. At(s) = [i \in 1 .. n |-> s[i].at]
    BY <1>2 DEF At
  <1>4. \A i \in 1 .. n : s[i].at \in Seq(Nat) /\ s[i].at # <<>>
    BY <1>2
  <1>5. At(s) \in Seq(Seq(Nat))
    BY <1>3, <1>4
  <1>. QED  BY <1>3, <1>4, <1>5 DEF In

LEMMA AllPlaces ==
  ASSUME Types
  PROVE  /\ At(patches) \in Seq(Seq(Nat)) /\ At(docs) \in Seq(Seq(Nat))
         /\ queue \in Seq(Seq(Nat)) /\ agenda \in Seq(Seq(Nat))
         /\ \A p \in PatchPlaces \cup DocPlaces \cup In(queue) \cup In(agenda) :
              p \in Seq(Nat) /\ p # <<>>
  <1>1. \A d \in Documents : d.at \in Seq(Nat) /\ d.at # <<>>
    BY PlaceOfDocument DEF Types
  <1>2. \A d \in AllPatches : d.at \in Seq(Nat) /\ d.at # <<>>
    <2>1. InstallerPatch.at = <<0>>
      BY DEF InstallerPatch
    <2>2. <<0>> \in Seq(Nat) /\ <<0>> # <<>>
      OBVIOUS
    <2>. QED  BY <1>1, <2>1, <2>2 DEF AllPatches
  <1>3. \A p \in DOMAIN tree : p \in Seq(Nat) /\ p # <<>>
    BY PlaceInTree DEF Types
  <1>4. At(patches) \in Seq(Seq(Nat)) /\ \A p \in PatchPlaces : p \in Seq(Nat) /\ p # <<>>
    <2>1. patches \in Seq(AllPatches)
      BY DEF Types
    <2>. QED  BY <1>2, <2>1, AtPlaces DEF PatchPlaces
  <1>5. At(docs) \in Seq(Seq(Nat)) /\ \A p \in DocPlaces : p \in Seq(Nat) /\ p # <<>>
    <2>1. docs \in Seq(Documents)
      BY DEF Types
    <2>. QED  BY <1>1, <2>1, AtPlaces DEF DocPlaces
  <1>6. agenda \in Seq(Seq(Nat)) /\ \A p \in In(agenda) : p \in Seq(Nat) /\ p # <<>>
    <2>1. agenda \in Seq(DOMAIN tree)
      BY DEF Types
    <2>2. \A i \in DOMAIN agenda : agenda[i] \in DOMAIN tree
      BY <2>1
    <2>. QED  BY <1>3, <2>1, <2>2 DEF In
  <1>7. queue \in Seq(Seq(Nat)) /\ \A p \in In(queue) : p \in Seq(Nat) /\ p # <<>>
    <2>1. queue \in Seq(Files)
      BY DEF Types
    <2>2. \A i \in DOMAIN queue : queue[i] \in DOMAIN tree
      BY <2>1 DEF Files
    <2>. QED  BY <1>3, <2>1, <2>2 DEF In
  <1>. QED  BY <1>4, <1>5, <1>6, <1>7

LEMMA AtNothing == At(<<>>) = <<>> /\ In(At(<<>>)) = {} /\ Rising(At(<<>>))
  BY DEF At, In, Rising

LEMMA OrderedInit == Init => Ordered
  <1>. SUFFICES ASSUME Init PROVE Ordered
    OBVIOUS
  <1>1. agenda = <<>> /\ queue = <<>> /\ docs = <<>> /\ patches = <<>>
    BY DEF Init
  <1>. QED  BY <1>1, AtNothing, InNothing DEF Ordered, PatchPlaces, DocPlaces, Precede

LEMMA OrderedFail == ASSUME Fail PROVE Ordered'
  <1>1. agenda' = <<>> /\ queue' = <<>> /\ docs' = <<>> /\ patches' = <<>>
    BY DEF Fail
  <1>. QED  BY <1>1, AtNothing, InNothing DEF Ordered, PatchPlaces, DocPlaces, Precede

LEMMA OrderedWalk == ASSUME Types, Ordered, WalkFolder PROVE Ordered'
  <1>1. /\ agenda = <<>> /\ queue = <<>> /\ docs = <<>>
        /\ agenda' = <<<<folder>>>> /\ folder' = folder + 1 /\ folder \in Nat
        /\ queue' = queue /\ docs' = docs /\ patches' = patches
    BY DEF WalkFolder, Types
  <1>2. Rising(agenda') /\ In(agenda') = {<<folder>>}
    BY <1>1, RisingOne
  <1>3. ASSUME NEW p \in PatchPlaces PROVE Later(<<folder>>, p) /\ p[1] < folder'
    <2>1. p \in Seq(Nat) /\ p # <<>> /\ p[1] < folder
      BY AllPlaces DEF Ordered
    <2>2. <<folder>> \in Seq(Nat) /\ <<folder>> # <<>> /\ <<folder>>[1] = folder
      BY <1>1
    <2>3. Later(<<folder>>, p)
      <3>1. p[1] \in Nat
        BY <2>1
      <3>2. folder > p[1]
        BY <1>1, <2>1, <3>1
      <3>. QED  BY <2>1, <2>2, <3>2, LaterFolder
    <2>4. p[1] \in Nat
      BY <2>1
    <2>. QED  BY <1>1, <2>1, <2>3, <2>4
  <1>4. <<folder>>[1] < folder'
    BY <1>1
  <1>5. In(queue') = {} /\ DocPlaces' = {} /\ PatchPlaces' = PatchPlaces
    BY <1>1, InNothing, AtNothing DEF DocPlaces, PatchPlaces
  <1>6. Rising(At(patches')) /\ Rising(At(docs')) /\ Rising(queue')
    BY <1>1 DEF Ordered
  <1>7. Precede(PatchPlaces', DocPlaces' \cup In(queue') \cup In(agenda'))
    BY <1>2, <1>3, <1>5 DEF Precede
  <1>8. Precede(DocPlaces', In(queue')) /\ Precede(In(queue'), In(agenda'))
    BY <1>5 DEF Precede
  <1>9. \A p \in PatchPlaces' \cup DocPlaces' \cup In(queue') \cup In(agenda') : p[1] < folder'
    BY <1>2, <1>3, <1>4, <1>5
  <1>10. docs' = <<>>
    BY <1>1
  <1>. QED  BY <1>2, <1>6, <1>7, <1>8, <1>9, <1>10 DEF Ordered

(* What is below a place is in the same folder. *)
LEMMA SameFolder ==
  ASSUME NEW p \in Seq(Nat), p # <<>>, NEW n \in Nat, NEW s, s = [i \in 1 .. n |-> Append(p, i)]
  PROVE  \A q \in In(s) : q[1] = p[1]
  <1>1. \A i \in 1 .. n : Append(p, i)[1] = p[1]
    BY 1 \in 1 .. Len(p)
  <1>. QED  BY <1>1 DEF In

LEMMA OrderedDirectory == ASSUME Types, Ordered, VisitDirectory PROVE Ordered'
  <1>1. /\ agenda # <<>> /\ agenda' = EntriesOf(Head(agenda)) \o Tail(agenda)
        /\ folder' = folder /\ queue' = queue /\ docs' = docs /\ patches' = patches
        /\ tree[Head(agenda)].kind = "dir"
    BY DEF VisitDirectory, Visits
  <1>2. PICK h : h = Head(agenda)
    OBVIOUS
  <1>3. PICK t : t = Tail(agenda)
    OBVIOUS
  <1>4. PICK e : e = EntriesOf(h)
    OBVIOUS
  <1>5. h \in DOMAIN tree /\ h \in Seq(Nat) /\ h # <<>>
    BY <1>1, <1>2, HeadAndTail, PlaceInTree DEF Types
  <1>6. PICK n \in Nat : e = [i \in 1 .. n |-> Append(h, i)]
    BY <1>1, <1>2, <1>4, <1>5, EntriesInTree DEF EntriesOf, Types
  <1>7. agenda \in Seq(Seq(Nat))
    BY AllPlaces
  <1>8. t \in Seq(Seq(Nat)) /\ In(agenda) = {h} \cup In(t)
    BY <1>1, <1>2, <1>3, <1>7, HeadAndTail
  <1>9. Rising(t) /\ Precede({h}, In(t))
    BY <1>1, <1>2, <1>3, <1>7, RisingTail DEF Ordered
  <1>10. e \in Seq(Seq(Nat)) /\ Rising(e)
    BY <1>5, <1>6, Below
  <1>11. In(t) \subseteq Seq(Nat) /\ PatchPlaces \subseteq Seq(Nat) /\ In(queue) \subseteq Seq(Nat)
    BY <1>8, AllPlaces
  <1>12. Precede(In(e), In(t))
    BY <1>5, <1>6, <1>9, <1>11, Below
  <1>13. Rising(agenda') /\ In(agenda') = In(e) \cup In(t)
    <2>1. agenda' = e \o t
      BY <1>1, <1>2, <1>3, <1>4
    <2>2. Rising(e \o t)
      BY <1>8, <1>9, <1>10, <1>12, RisingConcat
    <2>3. In(e \o t) = In(e) \cup In(t)
      BY <1>8, <1>10, InConcat
    <2>. QED  BY <2>1, <2>2, <2>3
  <1>14. Precede(PatchPlaces, In(e)) /\ Precede(In(queue), In(e))
    <2>1. Precede(PatchPlaces, {h}) /\ Precede(In(queue), {h})
      BY <1>8 DEF Ordered, Precede
    <2>. QED  BY <1>5, <1>6, <1>11, <2>1, Below
  <1>15. docs = <<>> /\ DocPlaces = {}
    BY <1>1, AtNothing DEF Ordered, DocPlaces
  <1>16. Precede(PatchPlaces, DocPlaces \cup In(queue) \cup In(agenda'))
    BY <1>8, <1>13, <1>14 DEF Ordered, Precede
  <1>17. Precede(In(queue), In(agenda'))
    BY <1>8, <1>13, <1>14 DEF Ordered, Precede
  <1>18. \A p \in In(agenda') : p[1] < folder
    <2>1. \A p \in In(e) : p[1] = h[1]
      BY <1>5, <1>6, SameFolder
    <2>2. \A p \in {h} \cup In(t) : p[1] < folder
      BY <1>8 DEF Ordered
    <2>. QED  BY <1>13, <2>1, <2>2
  <1>19. PatchPlaces' = PatchPlaces /\ DocPlaces' = DocPlaces
    BY <1>1 DEF PatchPlaces, DocPlaces
  <1>. QED
    BY <1>1, <1>13, <1>15, <1>16, <1>17, <1>18, <1>19 DEF Ordered

LEMMA OrderedFile == ASSUME Types, Ordered, VisitFile PROVE Ordered'
  <1>1. /\ agenda # <<>> /\ agenda' = Tail(agenda)
        /\ queue' = queue \/ queue' = Append(queue, Head(agenda))
        /\ folder' = folder /\ docs' = docs /\ patches' = patches
    BY DEF VisitFile, Visits
  <1>2. PICK h : h = Head(agenda)
    OBVIOUS
  <1>3. agenda \in Seq(Seq(Nat)) /\ queue \in Seq(Seq(Nat))
    BY AllPlaces
  <1>4. h \in Seq(Nat) /\ In(agenda) = {h} \cup In(agenda')
    BY <1>1, <1>2, <1>3, HeadAndTail
  <1>5. Rising(agenda') /\ Precede({h}, In(agenda'))
    BY <1>1, <1>2, <1>3, RisingTail DEF Ordered
  <1>6. Rising(queue') /\ In(queue') \subseteq In(queue) \cup {h}
    <2>1. CASE queue' = Append(queue, h)
      <3>1. <<h>> \in Seq(Seq(Nat)) /\ Append(queue, h) = queue \o <<h>>
        BY <1>3, <1>4
      <3>2. Rising(<<h>>) /\ In(<<h>>) = {h}
        BY RisingOne
      <3>3. Precede(In(queue), {h}) /\ Rising(queue)
        BY <1>4 DEF Ordered, Precede
      <3>4. Rising(queue \o <<h>>)
        BY <1>3, <3>1, <3>2, <3>3, RisingConcat
      <3>5. In(queue \o <<h>>) = In(queue) \cup {h}
        BY <1>3, <1>4, InOne
      <3>. QED  BY <2>1, <3>1, <3>4, <3>5
    <2>2. CASE queue' = queue
      BY <2>2 DEF Ordered
    <2>. QED  BY <1>1, <1>2, <2>1, <2>2
  <1>7. PatchPlaces' = PatchPlaces /\ DocPlaces' = DocPlaces
    BY <1>1 DEF PatchPlaces, DocPlaces
  <1>8. docs = <<>> /\ DocPlaces = {}
    BY <1>1, AtNothing DEF Ordered, DocPlaces
  <1>9. Precede(PatchPlaces, DocPlaces \cup In(queue') \cup In(agenda'))
    BY <1>4, <1>6 DEF Ordered, Precede
  <1>10. Precede(In(queue'), In(agenda'))
    BY <1>4, <1>5, <1>6 DEF Ordered, Precede
  <1>11. Precede(DocPlaces, In(queue'))
    BY <1>8 DEF Precede
  <1>12. \A p \in PatchPlaces \cup DocPlaces \cup In(queue') \cup In(agenda') : p[1] < folder
    BY <1>4, <1>6 DEF Ordered
  <1>. QED  BY <1>1, <1>5, <1>6, <1>7, <1>8, <1>9, <1>10, <1>11, <1>12 DEF Ordered

LEMMA OrderedRead == ASSUME Types, Ordered, ReadFile, ~Fail PROVE Ordered'
  <1>1. /\ queue # <<>> /\ agenda = <<>> /\ docs = <<>>
        /\ folder' = folder /\ patches' = patches /\ agenda' = agenda
    BY DEF ReadFile
  <1>2. PICK h : h = Head(queue)
    OBVIOUS
  <1>3. /\ h \in Files /\ queue' = Tail(queue)
        /\ docs' = [i \in DOMAIN tree[h].body |-> Document(h, i)]
    BY <1>2, FileRead
  <1>4. queue \in Seq(Seq(Nat)) /\ h \in Seq(Nat) /\ h # <<>>
    BY <1>3, AllPlaces, PlaceInTree DEF Files, Types
  <1>5. PICK n \in Nat : DOMAIN tree[h].body = 1 .. n
    BY <1>3, FileBody DEF IsBody, Types
  <1>6. PICK e : e = At(docs')
    OBVIOUS
  <1>7. e = [i \in 1 .. n |-> Append(h, i)]
    <2>1. \A i \in 1 .. n : Document(h, i).at = Append(h, i)
      BY DEF Document
    <2>. QED  BY <1>3, <1>5, <1>6, <2>1 DEF At
  <1>8. In(queue) = {h} \cup In(queue') /\ In(queue') \subseteq Seq(Nat)
    <2>1. Tail(queue) \in Seq(Seq(Nat)) /\ In(queue) = {h} \cup In(Tail(queue))
      BY <1>1, <1>2, <1>4, HeadAndTail
    <2>2. In(queue) \subseteq Seq(Nat)
      BY AllPlaces
    <2>. QED  BY <1>3, <2>1, <2>2
  <1>9. Rising(queue') /\ Precede({h}, In(queue'))
    BY <1>1, <1>2, <1>3, <1>4, RisingTail DEF Ordered
  <1>10. Rising(e) /\ Precede(In(e), In(queue'))
    BY <1>4, <1>7, <1>8, <1>9, Below
  <1>11. Precede(PatchPlaces, In(e))
    <2>1. Precede(PatchPlaces, {h}) /\ PatchPlaces \subseteq Seq(Nat)
      BY <1>8, AllPlaces DEF Ordered, Precede
    <2>. QED  BY <1>4, <1>7, <2>1, Below
  <1>12. In(agenda) = {} /\ Rising(agenda)
    BY <1>1, InNothing
  <1>13. PatchPlaces' = PatchPlaces /\ DocPlaces' = In(e)
    BY <1>1, <1>6 DEF PatchPlaces, DocPlaces
  <1>14. Precede(PatchPlaces, In(e) \cup In(queue') \cup In(agenda))
    BY <1>8, <1>11, <1>12 DEF Ordered, Precede
  <1>15. Precede(In(queue'), In(agenda))
    BY <1>12 DEF Precede
  <1>16. \A p \in In(e) : p[1] = h[1]
    BY <1>4, <1>7, SameFolder
  <1>17. \A p \in PatchPlaces \cup In(e) \cup In(queue') \cup In(agenda) : p[1] < folder
    BY <1>8, <1>12, <1>16 DEF Ordered
  <1>18. Rising(At(docs'))
    BY <1>6, <1>10
  <1>. QED
    BY <1>1, <1>9, <1>10, <1>12, <1>13, <1>14, <1>15, <1>17, <1>18 DEF Ordered

LEMMA OrderedParse == ASSUME Types, Ordered, ParseDocument, ~Fail PROVE Ordered'
  <1>1. /\ docs # <<>> /\ docs' = Tail(docs)
        /\ patches' = patches \/ patches' = Append(patches, Head(docs))
        /\ folder' = folder /\ queue' = queue /\ agenda' = agenda
    BY DEF ParseDocument
  <1>2. PICK d : d = Head(docs)
    OBVIOUS
  <1>3. PICK S : S = Documents \cup AllPatches
    OBVIOUS
  <1>4. docs \in Seq(S) /\ patches \in Seq(S) /\ d \in S
    <2>1. docs \in Seq(Documents) /\ patches \in Seq(AllPatches)
      BY DEF Types
    <2>2. d \in Documents
      BY <1>1, <1>2, <2>1, HeadAndTail
    <2>. QED  BY <1>3, <2>1, <2>2
  <1>5. At(docs) \in Seq(Seq(Nat)) /\ At(patches) \in Seq(Seq(Nat))
    BY AllPlaces
  <1>6. At(docs') = Tail(At(docs)) /\ Head(At(docs)) = d.at /\ At(docs) # <<>>
    BY <1>1, <1>2, <1>4, AtTail
  <1>7. d.at \in Seq(Nat) /\ DocPlaces = {d.at} \cup DocPlaces'
    BY <1>5, <1>6, HeadAndTail DEF DocPlaces
  <1>8. Rising(At(docs')) /\ Precede({d.at}, DocPlaces')
    BY <1>5, <1>6, RisingTail DEF Ordered, DocPlaces
  <1>9. Rising(At(patches')) /\ PatchPlaces' \subseteq PatchPlaces \cup {d.at}
    <2>1. CASE patches' = Append(patches, d)
      <3>1. At(patches') = At(patches) \o <<d.at>>
        BY <1>4, <2>1, AtAppend
      <3>2. <<d.at>> \in Seq(Seq(Nat))
        BY <1>7
      <3>3. Rising(<<d.at>>) /\ In(<<d.at>>) = {d.at}
        BY RisingOne
      <3>4. Precede(PatchPlaces, {d.at})
        BY <1>7 DEF Ordered, Precede
      <3>5. Rising(At(patches'))
        BY <1>5, <3>1, <3>2, <3>3, <3>4, RisingConcat DEF Ordered, PatchPlaces
      <3>6. PatchPlaces' = PatchPlaces \cup {d.at}
        <4>1. In(At(patches) \o <<d.at>>) = In(At(patches)) \cup {d.at}
          BY <1>5, <1>7, InOne
        <4>. QED  BY <3>1, <4>1 DEF PatchPlaces
      <3>. QED  BY <3>5, <3>6
    <2>2. CASE patches' = patches
      BY <2>2 DEF Ordered, PatchPlaces
    <2>. QED  BY <1>1, <1>2, <2>1, <2>2
  <1>10. agenda = <<>> /\ In(agenda) = {}
    BY <1>1, InNothing DEF Ordered
  <1>11. Precede(PatchPlaces', DocPlaces' \cup In(queue) \cup In(agenda))
    BY <1>7, <1>8, <1>9, <1>10 DEF Ordered, Precede
  <1>12. Precede(DocPlaces', In(queue)) /\ Precede(In(queue), In(agenda))
    BY <1>7 DEF Ordered, Precede
  <1>13. \A p \in PatchPlaces' \cup DocPlaces' \cup In(queue) \cup In(agenda) : p[1] < folder
    BY <1>7, <1>9 DEF Ordered
  <1>. QED  BY <1>1, <1>8, <1>9, <1>10, <1>11, <1>12, <1>13 DEF Ordered

LEMMA OrderedReturn == ASSUME Types, Ordered, Return PROVE Ordered'
  <1>1. /\ agenda = <<>> /\ queue = <<>> /\ docs = <<>> /\ Loading
        /\ patches' = <<InstallerPatch>> \o patches
        /\ folder' = folder /\ queue' = queue /\ agenda' = agenda /\ docs' = docs
    BY DEF Return, walk
  <1>2. patches \in Seq(Documents) /\ patches \in Seq(AllPatches) /\ folder \in 1 .. 4
    BY <1>1 DEF Types
  <1>3. InstallerPatch.at = <<0>> /\ InstallerPatch \in AllPatches
    <2>1. InstallerPatch.at = <<0>>
      BY DEF InstallerPatch
    <2>. QED  BY <2>1, InstallerIn
  <1>4. At(patches') = <<<<0>>>> \o At(patches)
    <2>1. PICK s : s = patches'
      OBVIOUS
    <2>2. s \in Seq(AllPatches) /\ s # <<>> /\ Head(s) = InstallerPatch /\ Tail(s) = patches
      <3>1. <<InstallerPatch>> \in Seq(AllPatches) /\ Len(<<InstallerPatch>>) = 1
        BY <1>3
      <3>2. s \in Seq(AllPatches) /\ Len(s) = 1 + Len(patches) /\ Len(patches) \in Nat
        BY <1>1, <1>2, <2>1, <3>1
      <3>3. s # <<>>
        BY <3>2
      <3>4. s[1] = InstallerPatch /\ Head(s) = s[1]
        BY <1>1, <1>2, <2>1, <3>1, <3>3
      <3>5. Tail(s) = patches
        BY <1>1, <1>2, <2>1, <3>1
      <3>. QED  BY <3>2, <3>3, <3>4, <3>5
    <2>3. At(Tail(s)) = Tail(At(s)) /\ Head(At(s)) = <<0>> /\ At(s) # <<>>
      BY <1>3, <2>2, AtTail
    <2>4. At(s) \in Seq(Seq(Nat))
      <3>1. \A d \in AllPatches : d.at \in Seq(Nat) /\ d.at # <<>>
        <4>1. <<0>> \in Seq(Nat) /\ <<0>> # <<>>
          OBVIOUS
        <4>. QED  BY <1>3, <4>1, PlaceOfDocument DEF AllPatches, Types
      <3>. QED  BY <2>2, <3>1, AtPlaces
    <2>5. At(s) = <<Head(At(s))>> \o Tail(At(s))
      BY <2>3, <2>4
    <2>. QED  BY <2>1, <2>2, <2>3, <2>5
  <1>5. ASSUME NEW p \in PatchPlaces PROVE Later(p, <<0>>)
    <2>1. PICK i \in DOMAIN patches : p = patches[i].at
      BY DEF PatchPlaces, In, At
    <2>2. patches[i] \in Documents
      BY <1>2
    <2>3. p \in Seq(Nat) /\ p # <<>> /\ p[1] \in Folders
      BY <2>1, <2>2, PlaceOfDocument DEF Types
    <2>4. <<0>> \in Seq(Nat) /\ <<0>> # <<>> /\ <<0>>[1] = 0
      OBVIOUS
    <2>5. p[1] > 0
      BY <2>3 DEF Folders
    <2>. QED  BY <2>3, <2>4, <2>5, LaterFolder
  <1>6. At(patches) \in Seq(Seq(Nat)) /\ <<<<0>>>> \in Seq(Seq(Nat))
    BY AllPlaces
  <1>7. Rising(<<<<0>>>>) /\ In(<<<<0>>>>) = {<<0>>}
    BY RisingOne
  <1>8. Rising(At(patches'))
    <2>1. Precede({<<0>>}, PatchPlaces) /\ Rising(At(patches))
      BY <1>5 DEF Precede, Ordered
    <2>. QED  BY <1>4, <1>6, <1>7, <2>1, RisingConcat DEF PatchPlaces
  <1>9. PatchPlaces' = {<<0>>} \cup PatchPlaces
    <2>1. PICK z : z = <<0>>
      OBVIOUS
    <2>2. z \in Seq(Nat)
      BY <2>1
    <2>3. In(<<z>> \o At(patches)) = {z} \cup In(At(patches))
      BY <1>6, <2>2, InOne
    <2>. QED  BY <1>4, <2>1, <2>3 DEF PatchPlaces
  <1>10. DocPlaces = {} /\ DocPlaces' = {} /\ In(queue) = {} /\ In(agenda) = {}
    BY <1>1, InNothing, AtNothing DEF DocPlaces
  <1>11. \A p \in PatchPlaces' : p[1] < folder
    <2>1. <<0>>[1] < folder
      BY <1>2
    <2>. QED  BY <1>9, <2>1 DEF Ordered
  <1>12. /\ Precede(PatchPlaces', DocPlaces' \cup In(queue) \cup In(agenda))
         /\ Precede(DocPlaces', In(queue)) /\ Precede(In(queue), In(agenda))
    BY <1>10 DEF Precede
  <1>. QED  BY <1>1, <1>8, <1>10, <1>11, <1>12 DEF Ordered

LEMMA OrderedStep == Types /\ Ordered /\ [Next]_vars => Ordered'
  <1>. SUFFICES ASSUME Types, Ordered, [Next]_vars PROVE Ordered'
    OBVIOUS
  <1>1. ASSUME UNCHANGED <<folder, agenda, queue, docs, patches>> PROVE Ordered'
    BY <1>1 DEF Ordered, PatchPlaces, DocPlaces
  <1>2. CASE UNCHANGED vars
    BY <1>1, <1>2 DEF vars, walk
  <1>3. CASE VisitNothing
    <2>1. agenda' = <<>> /\ queue' = <<>> /\ UNCHANGED <<folder, docs, patches>>
      BY <1>3 DEF VisitNothing
    <2>2. PatchPlaces' = PatchPlaces /\ DocPlaces' = DocPlaces
      BY <2>1 DEF PatchPlaces, DocPlaces
    <2>. QED  BY <2>1, <2>2, InNothing DEF Ordered, Precede
  <1>4. CASE Apply \/ NewBundle
    BY <1>1, <1>4 DEF Apply, NewBundle, walk
  <1>. QED
    BY <1>2, <1>3, <1>4, OrderedFail, OrderedWalk, OrderedDirectory, OrderedFile,
       OrderedRead, OrderedParse, OrderedReturn DEF Next, VisitDenied

-----------------------------------------------------------------------------
(* Completeness: whatever is in a folder that the walk has come to is seen *)
(* already or below a place on the agenda; a file that is seen is queued,  *)
(* or its documents are at hand, skipped or among the patches.             *)
IsUnder(p, a) == Len(a) <= Len(p) /\ a = SubSeq(p, 1, Len(a))

Loaded(p) ==
  /\ ~Unreadable(tree[p])
  /\ \A i \in DOMAIN tree[p].body :
       /\ \/ Document(p, i) \in In(docs)
          \/ /\ ~Rejected(Document(p, i))
             /\ Skipped(Document(p, i)) \/ Document(p, i) \in In(patches)
       /\ \A f \in DOMAIN tree[p].body[i].set :
            LET v == tree[p].body[i].set[f]
            IN Hidden(tree[p], v) => Value(tree[p], v) \in secrets

Seen(p) ==
  /\ tree[p].kind # "denied"
  /\ p \in Files => p \in In(queue) \/ Loaded(p)

Covered ==
  FoldersComplete /\ outcome # "error" =>
    \A p \in DOMAIN tree :
      p[1] < folder => Seen(p) \/ \E a \in In(agenda) : IsUnder(p, a)

(* A folder itself is on the agenda alone, and before any of its files. *)
FolderFirst ==
  (\E a \in In(agenda) : Len(a) = 1) => Len(agenda) = 1 /\ queue = <<>>

(* What is in a file and what is made of it stays the same.                *)
LEMMA SameFile ==
  ASSUME [Next]_vars, NEW p
  PROVE  /\ tree[p]' = tree[p] /\ Unreadable(tree[p])' = Unreadable(tree[p])
         /\ \A i : Document(p, i)' = Document(p, i)
         /\ \A v : Value(tree[p], v)' = Value(tree[p], v)
         /\ \A v : Hidden(tree[p], v)' = Hidden(tree[p], v)
  <1>1. tree' = tree /\ tools' = tools
    BY SameTree
  <1>2. \A file, v : Opened(file, v)' = Opened(file, v)
    BY <1>1 DEF Opened
  <1>3. \A file, v : Value(file, v)' = Value(file, v)
    BY <1>2 DEF Value
  <1>4. \A v : Hidden(tree[p], v)' = Hidden(tree[p], v)
    BY <1>1, <1>3 DEF Hidden
  <1>5. \A i : Document(p, i)' = Document(p, i)
    BY <1>1, <1>3 DEF Document
  <1>6. Unreadable(tree[p])' = Unreadable(tree[p])
    BY <1>1, <1>2 DEF Unreadable
  <1>. QED  BY <1>1, <1>3, <1>4, <1>5, <1>6

LEMMA SeenKept ==
  ASSUME [Next]_vars, NEW p, Seen(p),
         p \in In(queue) => p \in In(queue') \/ Loaded(p)',
         In(docs) \subseteq In(docs'), In(patches) \subseteq In(patches'),
         secrets \subseteq secrets'
  PROVE  Seen(p)'
  <1>1. tree' = tree /\ tools' = tools /\ Files' = Files
    BY SameTree
  <1>2. ASSUME Loaded(p) PROVE Loaded(p)'
    BY <1>2, SameFile DEF Loaded
  <1>. QED  BY <1>1, <1>2 DEF Seen

(* Below a place that is no directory there is only itself; below one that *)
(* is, itself and what is below its entries.                               *)
LEMMA UnderLeaf ==
  ASSUME IsTree(tree), NEW a \in DOMAIN tree, NEW p \in DOMAIN tree, IsUnder(p, a),
         tree[a].kind # "dir"
  PROVE  p = a
  <1>1. p \in Seq(Nat) /\ a \in Seq(Nat) /\ a # <<>> /\ Len(p) \in Nat /\ Len(a) \in Nat \ {0}
    BY PlaceInTree
  <1>2. CASE Len(a) = Len(p)
    BY <1>1, <1>2 DEF IsUnder
  <1>3. CASE Len(a) < Len(p)
    <2>1. Len(a) \in 1 .. Len(p) - 1
      BY <1>1, <1>3
    <2>2. tree[SubSeq(p, 1, Len(a))].kind = "dir"
      BY <2>1 DEF IsTree
    <2>. QED  BY <2>2 DEF IsUnder
  <1>. QED  BY <1>1, <1>2, <1>3 DEF IsUnder

LEMMA UnderDirectory ==
  ASSUME IsTree(tree), NEW a \in DOMAIN tree, NEW p \in DOMAIN tree, IsUnder(p, a),
         tree[a].kind = "dir", p # a
  PROVE  \E b \in In(EntriesOf(a)) : IsUnder(p, b)
  <1>1. p \in Seq(Nat) /\ a \in Seq(Nat) /\ a # <<>> /\ Len(p) \in Nat /\ Len(a) \in Nat \ {0}
    BY PlaceInTree
  <1>2. Len(a) < Len(p)
    BY <1>1 DEF IsUnder
  <1>3. PICK n \in Nat : n = Len(a)
    BY <1>1
  <1>4. PICK i : i = p[n + 1]
    OBVIOUS
  <1>5. i \in 1 .. tree[a].size
    <2>1. n \in 1 .. Len(p) - 1
      BY <1>1, <1>2, <1>3
    <2>2. p[n + 1] \in 1 .. tree[SubSeq(p, 1, n)].size
      BY <2>1 DEF IsTree
    <2>. QED  BY <1>3, <1>4, <2>2 DEF IsUnder
  <1>6. tree[a].size \in Nat
    BY EntriesInTree
  <1>7. PICK b : b = Append(a, i)
    OBVIOUS
  <1>8. b \in In(EntriesOf(a))
    BY <1>5, <1>7 DEF In, EntriesOf
  <1>9. b \in Seq(Nat) /\ Len(b) = n + 1 /\ b[n + 1] = i /\ \A j \in 1 .. n : b[j] = a[j]
    BY <1>1, <1>3, <1>5, <1>6, <1>7
  <1>10. \A j \in 1 .. n : a[j] = p[j]
    BY <1>1, <1>2, <1>3 DEF IsUnder
  <1>11. PICK c : c = SubSeq(p, 1, n + 1)
    OBVIOUS
  <1>12. c \in Seq(Nat) /\ Len(c) = n + 1 /\ \A j \in 1 .. n + 1 : c[j] = p[j]
    BY <1>1, <1>2, <1>3, <1>11
  <1>13. ASSUME NEW j \in 1 .. n + 1 PROVE b[j] = c[j]
    <2>1. j \in 1 .. n \/ j = n + 1
      OBVIOUS
    <2>. QED  BY <1>4, <1>9, <1>10, <1>12, <2>1
  <1>14. b = c
    BY <1>9, <1>12, <1>13
  <1>15. IsUnder(p, b)
    BY <1>1, <1>2, <1>3, <1>9, <1>11, <1>14 DEF IsUnder
  <1>. QED  BY <1>8, <1>15

LEMMA FolderFirstStep == Types /\ FolderFirst /\ [Next]_vars => FolderFirst'
  <1>. SUFFICES ASSUME Types, FolderFirst, [Next]_vars PROVE FolderFirst'
    OBVIOUS
  <1>1. ASSUME agenda' = agenda, queue' = queue PROVE FolderFirst'
    BY <1>1 DEF FolderFirst
  <1>2. ASSUME agenda' = <<>> PROVE FolderFirst'
    BY <1>2, InNothing DEF FolderFirst
  <1>3. CASE WalkFolder
    <2>1. agenda' = <<<<folder>>>> /\ queue' = <<>>
      BY <1>3 DEF WalkFolder
    <2>. QED  BY <2>1 DEF FolderFirst
  <1>4. ASSUME agenda # <<>>, NEW a \in In(Tail(agenda)) PROVE Len(a) # 1
    <2>1. agenda \in Seq(DOMAIN tree)
      BY DEF Types
    <2>2. a \in In(agenda)
      BY <1>4, <2>1, HeadAndTail
    <2>3. Len(agenda) # 1
      <3>1. CASE Len(agenda) = 1
        <4>1. Tail(agenda) = <<>>
          BY <2>1, <3>1, TailOfOne
        <4>. QED  BY <1>4, <4>1, InNothing
      <3>. QED  BY <3>1
    <2>. QED  BY <2>2, <2>3 DEF FolderFirst
  <1>5. CASE VisitDirectory
    <2>1. PICK h : h = Head(agenda)
      OBVIOUS
    <2>2. agenda # <<>> /\ agenda' = EntriesOf(h) \o Tail(agenda) /\ tree[h].kind = "dir"
      BY <1>5, <2>1 DEF VisitDirectory, Visits
    <2>3. h \in DOMAIN tree /\ Tail(agenda) \in Seq(DOMAIN tree)
      BY <2>1, <2>2, HeadAndTail DEF Types
    <2>4. EntriesOf(h) \in Seq(DOMAIN tree) /\ tree[h].size \in Nat
      BY <2>2, <2>3, EntriesInTree DEF Types
    <2>5. In(agenda') = In(EntriesOf(h)) \cup In(Tail(agenda))
      <3>1. PICK e, t : e = EntriesOf(h) /\ t = Tail(agenda)
        OBVIOUS
      <3>2. e \in Seq(DOMAIN tree) /\ t \in Seq(DOMAIN tree)
        BY <2>3, <2>4, <3>1
      <3>3. In(e \o t) = In(e) \cup In(t)
        BY <3>2, InConcat
      <3>. QED  BY <2>2, <3>1, <3>3
    <2>6. ASSUME NEW a \in In(EntriesOf(h)) PROVE Len(a) # 1
      <3>1. PICK i \in 1 .. tree[h].size : a = Append(h, i)
        BY DEF In, EntriesOf
      <3>2. h \in Seq(Nat) /\ h # <<>> /\ i \in Nat
        BY <2>3, <2>4, PlaceInTree DEF Types
      <3>3. Len(h) \in Nat \ {0} /\ Len(a) = Len(h) + 1
        BY <3>1, <3>2
      <3>. QED  BY <3>3
    <2>. QED  BY <1>4, <2>2, <2>5, <2>6 DEF FolderFirst
  <1>6. CASE VisitFile
    <2>1. agenda # <<>> /\ agenda' = Tail(agenda)
      BY <1>6 DEF VisitFile, Visits
    <2>. QED  BY <1>4, <2>1 DEF FolderFirst
  <1>7. CASE ReadFile /\ ~Fail
    <2>1. agenda' = <<>>
      BY <1>7 DEF ReadFile
    <2>. QED  BY <1>2, <2>1
  <1>. QED
    BY <1>1, <1>2, <1>3, <1>5, <1>6, <1>7
       DEF Next, vars, walk, VisitNothing, VisitDenied, Fail, ParseDocument, Return, Apply, NewBundle

LEMMA CoveredWalk ==
  ASSUME Types, Covered, [Next]_vars, WalkFolder PROVE Covered'
  <1>1. /\ agenda = <<>> /\ agenda' = <<<<folder>>>> /\ folder' = folder + 1 /\ folder \in Nat
        /\ UNCHANGED <<tree, queue, docs, patches, secrets, outcome>>
    BY DEF WalkFolder, Types
  <1>. SUFFICES ASSUME FoldersComplete, outcome # "error",
                       NEW p \in DOMAIN tree, p[1] < folder'
                PROVE  Seen(p)' \/ \E a \in In(agenda') : IsUnder(p, a)
    BY <1>1 DEF Covered, FoldersComplete
  <1>2. p \in Seq(Nat) /\ p # <<>> /\ p[1] \in Nat
    BY PlaceInTree DEF Types, Folders
  <1>3. CASE p[1] < folder
    <2>1. Seen(p)
      BY <1>1, <1>3, InNothing DEF Covered
    <2>. QED  BY <1>1, <2>1, SeenKept
  <1>4. CASE p[1] = folder
    <2>1. <<folder>> \in In(agenda')
      BY <1>1, RisingOne
    <2>2. Len(p) >= 1 /\ Len(<<folder>>) = 1
      BY <1>2
    <2>3. SubSeq(p, 1, 1) = <<folder>>
      <3>1. SubSeq(p, 1, 1) \in Seq(Nat) /\ Len(SubSeq(p, 1, 1)) = 1 /\ SubSeq(p, 1, 1)[1] = p[1]
        BY <1>2, <2>2
      <3>2. PICK c : c = SubSeq(p, 1, 1)
        OBVIOUS
      <3>3. c \in Seq(Nat) /\ Len(c) = 1 /\ c[1] = folder
        BY <1>4, <3>1, <3>2
      <3>4. c = <<folder>>
        BY <3>3
      <3>. QED  BY <3>2, <3>4
    <2>. QED  BY <2>1, <2>2, <2>3 DEF IsUnder
  <1>. QED  BY <1>1, <1>2, <1>3, <1>4

LEMMA CoveredDirectory ==
  ASSUME Types, Covered, [Next]_vars, VisitDirectory PROVE Covered'
  <1>1. PICK h : h = Head(agenda)
    OBVIOUS
  <1>2. /\ agenda # <<>> /\ tree[h].kind = "dir" /\ agenda' = EntriesOf(h) \o Tail(agenda)
        /\ UNCHANGED <<tree, folder, queue, docs, patches, secrets, outcome>>
    BY <1>1 DEF VisitDirectory, Visits
  <1>. SUFFICES ASSUME FoldersComplete, outcome # "error",
                       NEW p \in DOMAIN tree, p[1] < folder
                PROVE  Seen(p)' \/ \E a \in In(agenda') : IsUnder(p, a)
    BY <1>2 DEF Covered, FoldersComplete
  <1>3. h \in DOMAIN tree /\ Tail(agenda) \in Seq(DOMAIN tree) /\ In(agenda) = {h} \cup In(Tail(agenda))
    BY <1>1, <1>2, HeadAndTail DEF Types
  <1>4. EntriesOf(h) \in Seq(DOMAIN tree)
    BY <1>2, <1>3, EntriesInTree DEF Types
  <1>5. In(agenda') = In(EntriesOf(h)) \cup In(Tail(agenda))
    <2>1. PICK e, t : e = EntriesOf(h) /\ t = Tail(agenda)
      OBVIOUS
    <2>2. e \in Seq(DOMAIN tree) /\ t \in Seq(DOMAIN tree)
      BY <1>3, <1>4, <2>1
    <2>3. In(e \o t) = In(e) \cup In(t)
      BY <2>2, InConcat
    <2>. QED  BY <1>2, <2>1, <2>3
  <1>6. CASE Seen(p)
    BY <1>2, <1>6, SeenKept
  <1>7. ASSUME NEW a \in In(agenda), IsUnder(p, a)
        PROVE  Seen(p)' \/ \E b \in In(agenda') : IsUnder(p, b)
    <2>1. CASE a # h
      BY <1>3, <1>5, <1>7, <2>1
    <2>2. CASE a = h /\ p = h
      <3>1. Seen(p)
        BY <1>2, <2>2 DEF Seen, Files
      <3>. QED  BY <1>2, <3>1, SeenKept
    <2>3. CASE a = h /\ p # h
      BY <1>2, <1>3, <1>5, <1>7, <2>3, UnderDirectory DEF Types
    <2>. QED  BY <2>1, <2>2, <2>3
  <1>. QED  BY <1>6, <1>7 DEF Covered

LEMMA CoveredFile ==
  ASSUME Types, Covered, [Next]_vars, VisitFile PROVE Covered'
  <1>1. PICK h : h = Head(agenda)
    OBVIOUS
  <1>2. /\ agenda # <<>> /\ tree[h].kind = "file" /\ agenda' = Tail(agenda)
        /\ queue' = IF Matches(tree[h]) THEN Append(queue, h) ELSE queue
        /\ UNCHANGED <<tree, folder, docs, patches, secrets, outcome>>
    BY <1>1 DEF VisitFile, Visits
  <1>. SUFFICES ASSUME FoldersComplete, outcome # "error",
                       NEW p \in DOMAIN tree, p[1] < folder
                PROVE  Seen(p)' \/ \E a \in In(agenda') : IsUnder(p, a)
    BY <1>2 DEF Covered, FoldersComplete
  <1>3. h \in DOMAIN tree /\ In(agenda) = {h} \cup In(Tail(agenda))
    BY <1>1, <1>2, HeadAndTail DEF Types
  <1>4. In(queue) \subseteq In(queue') /\ (h \in Files => h \in In(queue'))
    <2>1. queue \in Seq(Files)
      BY DEF Types
    <2>2. CASE Matches(tree[h])
      <3>1. h \in Files
        BY <1>2, <1>3, <2>2 DEF Files
      <3>2. In(Append(queue, h)) = In(queue) \cup {h}
        BY <2>1, <3>1, InAppend
      <3>. QED  BY <1>2, <2>2, <3>2
    <2>3. CASE ~Matches(tree[h])
      BY <1>2, <2>3 DEF Files
    <2>. QED  BY <2>2, <2>3
  <1>5. CASE Seen(p)
    BY <1>2, <1>4, <1>5, SeenKept
  <1>6. ASSUME NEW a \in In(agenda), IsUnder(p, a)
        PROVE  Seen(p)' \/ \E b \in In(agenda') : IsUnder(p, b)
    <2>1. CASE a # h
      BY <1>2, <1>3, <1>6, <2>1
    <2>2. CASE a = h
      <3>1. p = h
        BY <1>2, <1>3, <1>6, <2>2, UnderLeaf DEF Types
      <3>2. Seen(p)'
        BY <1>2, <1>4, <3>1, SameTree DEF Seen
      <3>. QED  BY <3>2
    <2>. QED  BY <2>1, <2>2
  <1>. QED  BY <1>5, <1>6 DEF Covered

LEMMA CoveredNothing ==
  ASSUME Types, Covered, FolderFirst, [Next]_vars, VisitNothing PROVE Covered'
  <1>1. PICK h : h = Head(agenda)
    OBVIOUS
  <1>2. /\ agenda # <<>> /\ tree[h].kind = "nothing"
        /\ UNCHANGED <<tree, folder, docs, patches, secrets, outcome>>
    BY <1>1 DEF VisitNothing, Visits
  <1>. SUFFICES ASSUME FoldersComplete, outcome # "error",
                       NEW p \in DOMAIN tree, p[1] < folder
                PROVE  Seen(p)'
    BY <1>2 DEF Covered, FoldersComplete
  <1>3. agenda \in Seq(DOMAIN tree)
    BY DEF Types
  <1>4. h \in DOMAIN tree /\ In(agenda) = {h} \cup In(Tail(agenda))
    BY <1>1, <1>2, <1>3, HeadAndTail
  <1>5. Len(h) = 1
    <2>1. h \in Seq(Nat) /\ h # <<>> /\ ~(Len(h) > 1)
      BY <1>2, <1>4, PlaceInTree DEF Types, FoldersComplete
    <2>2. PICK n : n = Len(h)
      OBVIOUS
    <2>3. n \in Nat /\ n # 0 /\ ~(n > 1)
      BY <2>1, <2>2, EmptySeq
    <2>4. n = 1
      BY <2>3
    <2>. QED  BY <2>2, <2>4
  <1>6. Len(agenda) = 1 /\ queue = <<>>
    BY <1>4, <1>5 DEF FolderFirst
  <1>7. In(agenda) = {h} /\ In(queue) = {}
    <2>1. Tail(agenda) = <<>>
      BY <1>3, <1>6, TailOfOne
    <2>. QED  BY <1>4, <1>6, <2>1, InNothing
  <1>8. Seen(p)
    <2>1. CASE IsUnder(p, h)
      <3>1. p = h
        BY <1>2, <1>4, <2>1, UnderLeaf DEF Types
      <3>. QED  BY <1>2, <3>1 DEF Seen, Files
    <2>2. CASE ~IsUnder(p, h)
      BY <1>7, <2>2 DEF Covered
    <2>. QED  BY <2>1, <2>2
  <1>. QED  BY <1>2, <1>7, <1>8, SeenKept

LEMMA CoveredRead ==
  ASSUME Types, Covered, [Next]_vars, ReadFile, ~Fail PROVE Covered'
  <1>1. PICK h : h = Head(queue)
    OBVIOUS
  <1>2. /\ queue # <<>> /\ agenda = <<>> /\ docs = <<>>
        /\ UNCHANGED <<tree, tools, folder, agenda, patches, outcome>>
    BY DEF ReadFile
  <1>3. /\ h \in Files /\ ~Unreadable(tree[h])
        /\ docs' = [i \in DOMAIN tree[h].body |-> Document(h, i)]
        /\ queue' = Tail(queue) /\ secrets \subseteq secrets'
        /\ \A i \in DOMAIN tree[h].body : \A f \in DOMAIN tree[h].body[i].set :
             LET v == tree[h].body[i].set[f]
             IN Hidden(tree[h], v) => Value(tree[h], v) \in secrets'
    BY <1>1, FileRead
  <1>4. In(queue) = {h} \cup In(queue')
    BY <1>1, <1>2, <1>3, HeadAndTail DEF Types
  <1>5. Loaded(h)'
    <2>1. \A i \in DOMAIN tree[h].body : Document(h, i) \in In(docs')
      BY <1>3 DEF In
    <2>. QED  BY <1>3, <2>1, SameFile DEF Loaded
  <1>6. In(docs) = {} /\ In(agenda) = {}
    BY <1>2, InNothing
  <1>. SUFFICES ASSUME FoldersComplete, outcome # "error",
                       NEW p \in DOMAIN tree, p[1] < folder
                PROVE  Seen(p)'
    BY <1>2 DEF Covered, FoldersComplete
  <1>7. Seen(p)
    BY <1>6 DEF Covered
  <1>8. p \in In(queue) => p \in In(queue') \/ Loaded(p)'
    BY <1>4, <1>5
  <1>. QED  BY <1>2, <1>3, <1>6, <1>7, <1>8, SeenKept

LEMMA CoveredParse ==
  ASSUME Types, Covered, [Next]_vars, ParseDocument, ~Fail PROVE Covered'
  <1>1. PICK d : d = Head(docs)
    OBVIOUS
  <1>2. /\ docs # <<>> /\ ~Rejected(d) /\ docs' = Tail(docs) /\ Loading
        /\ patches' = IF Skipped(d) THEN patches ELSE Append(patches, d)
        /\ UNCHANGED <<tree, tools, folder, agenda, queue, secrets, outcome>>
    BY <1>1 DEF ParseDocument
  <1>3. d \in Documents /\ In(docs) = {d} \cup In(docs')
    BY <1>1, <1>2, HeadAndTail DEF Types
  <1>4. In(patches) \subseteq In(patches') /\ (Skipped(d) \/ d \in In(patches'))
    <2>1. CASE Skipped(d)
      BY <1>2, <2>1
    <2>2. CASE ~Skipped(d)
      <3>1. patches \in Seq(Documents)
        BY <1>2 DEF Types
      <3>2. In(Append(patches, d)) = In(patches) \cup {d}
        BY <1>3, <3>1, InAppend
      <3>. QED  BY <1>2, <2>2, <3>2
    <2>. QED  BY <2>1, <2>2
  <1>5. ASSUME NEW p, Loaded(p) PROVE Loaded(p)'
    <2>1. ASSUME NEW i \in DOMAIN tree[p].body
          PROVE  \/ Document(p, i) \in In(docs')
                 \/ /\ ~Rejected(Document(p, i))
                    /\ Skipped(Document(p, i)) \/ Document(p, i) \in In(patches')
      <3>1. CASE Document(p, i) = d
        BY <1>2, <1>4, <3>1
      <3>2. CASE Document(p, i) # d
        BY <1>3, <1>4, <1>5, <3>2 DEF Loaded
      <3>. QED  BY <3>1, <3>2
    <2>2. \A i : Document(p, i)' = Document(p, i)
      BY <1>2 DEF Document, Value, Opened
    <2>3. Unreadable(tree[p])' = Unreadable(tree[p])
      BY <1>2 DEF Unreadable, Opened
    <2>. QED  BY <1>2, <1>5, <2>1, <2>2, <2>3 DEF Loaded, Hidden, Value, Opened
  <1>. SUFFICES ASSUME FoldersComplete, outcome # "error",
                       NEW p \in DOMAIN tree, p[1] < folder
                PROVE  Seen(p)' \/ \E a \in In(agenda) : IsUnder(p, a)
    BY <1>2 DEF Covered, FoldersComplete
  <1>6. ASSUME Seen(p) PROVE Seen(p)'
    BY <1>2, <1>5, <1>6, SameTree DEF Seen
  <1>. QED  BY <1>6 DEF Covered

LEMMA CoveredStep == Types /\ Covered /\ FolderFirst /\ [Next]_vars => Covered'
  <1>. SUFFICES ASSUME Types, Covered, FolderFirst, [Next]_vars PROVE Covered'
    OBVIOUS
  <1>1. ASSUME UNCHANGED <<tree, tools, folder, agenda, queue, docs, secrets>>,
               In(patches) \subseteq In(patches'), outcome # "error"
        PROVE  Covered'
    <2>. SUFFICES ASSUME FoldersComplete, NEW p \in DOMAIN tree, p[1] < folder
                  PROVE  Seen(p)' \/ \E a \in In(agenda) : IsUnder(p, a)
      BY <1>1 DEF Covered, FoldersComplete
    <2>1. ASSUME Seen(p) PROVE Seen(p)'
      BY <1>1, <2>1, SeenKept
    <2>. QED  BY <1>1, <2>1 DEF Covered
  <1>2. CASE UNCHANGED vars
    <2>1. CASE outcome = "error"
      BY <1>2, <2>1 DEF Covered, vars
    <2>2. CASE outcome # "error"
      BY <1>1, <1>2, <2>2 DEF vars, walk
    <2>. QED  BY <2>1, <2>2
  <1>3. CASE Fail
    BY <1>3 DEF Fail, Covered
  <1>4. CASE Return
    <2>1. patches \in Seq(AllPatches) /\ InstallerPatch \in AllPatches
      BY InstallerIn DEF Types
    <2>2. In(<<InstallerPatch>> \o patches) = {InstallerPatch} \cup In(patches)
      BY <2>1, InOne
    <2>3. patches' = <<InstallerPatch>> \o patches /\ outcome = "loading"
      BY <1>4 DEF Return, Loading
    <2>4. UNCHANGED <<tree, tools, folder, agenda, queue, docs, secrets>>
      BY <1>4 DEF Return, walk
    <2>. QED  BY <1>1, <2>2, <2>3, <2>4
  <1>5. CASE Apply \/ NewBundle
    BY <1>1, <1>5 DEF Apply, NewBundle, walk
  <1>. QED
    BY <1>2, <1>3, <1>4, <1>5, CoveredWalk, CoveredDirectory, CoveredFile, CoveredNothing,
       CoveredRead, CoveredParse DEF Next, VisitDenied

-----------------------------------------------------------------------------
(* Load fails only over a bad file or a place that cannot be visited. *)
ErrorRight ==
  outcome = "error" =>
    \/ \E p \in Files : Broken(tree[p])
    \/ \E p \in DOMAIN tree : tree[p].kind = "denied"

LEMMA ErrorRightStep == Types /\ ErrorRight /\ [Next]_vars => ErrorRight'
  <1>. SUFFICES ASSUME Types, ErrorRight, [Next]_vars PROVE ErrorRight'
    OBVIOUS
  <1>. SUFFICES ASSUME outcome' = "error"
                PROVE  \/ \E p \in Files : Broken(tree[p])
                       \/ \E p \in DOMAIN tree : tree[p].kind = "denied"
    <2>1. tree' = tree /\ tools' = tools /\ Files' = Files
      BY SameTree
    <2>2. \A p : Broken(tree[p])' = Broken(tree[p])
      BY <2>1 DEF Broken, Unreadable, Opened
    <2>. QED  BY <2>1, <2>2 DEF ErrorRight
  <1>1. CASE outcome = "error"
    BY <1>1 DEF ErrorRight
  <1>2. CASE VisitDenied
    <2>1. agenda # <<>> /\ tree[Head(agenda)].kind = "denied"
      BY <1>2 DEF VisitDenied, Visits
    <2>2. Head(agenda) \in DOMAIN tree
      BY <2>1, HeadAndTail DEF Types
    <2>. QED  BY <2>1, <2>2
  <1>3. CASE ReadFile /\ outcome # "error"
    <2>1. PICK p : p = Head(queue)
      OBVIOUS
    <2>2. p \in Files
      BY <1>3, <2>1, HeadAndTail DEF ReadFile, Types
    <2>3. PICK file : file = tree[p]
      OBVIOUS
    <2>4. PICK c : c = LoadFile(file)
      OBVIOUS
    <2>5. ~c.ok
      BY <1>3, <2>1, <2>3, <2>4 DEF ReadFile
    <2>6. IsBody(file.body)
      BY <2>2, <2>3, FileBody DEF Types
    <2>7. Unreadable(file)
      BY <2>4, <2>5, <2>6, LoadedContent
    <2>. QED  BY <2>2, <2>3, <2>7 DEF Broken
  <1>4. CASE ParseDocument /\ outcome # "error"
    <2>1. docs # <<>> /\ Rejected(Head(docs))
      BY <1>4 DEF ParseDocument
    <2>2. Head(docs) \in Documents
      BY <2>1, HeadAndTail DEF Types
    <2>3. PICK p \in Files : \E i \in DOMAIN tree[p].body : Head(docs) = Document(p, i)
      BY <2>2 DEF Documents
    <2>4. PICK i \in DOMAIN tree[p].body : Head(docs) = Document(p, i)
      BY <2>3
    <2>5. Document(p, i).kind = tree[p].body[i].kind
      BY DEF Document
    <2>6. Rejected(tree[p].body[i])
      BY <2>1, <2>4, <2>5 DEF Rejected
    <2>. QED  BY <2>6 DEF Broken
  <1>. QED
    BY <1>1, <1>2, <1>3, <1>4
       DEF Next, vars, WalkFolder, VisitDirectory, VisitFile, VisitNothing, Return, Apply, NewBundle

-----------------------------------------------------------------------------
(* Merging: the fields are those that the patches merged so far set, each  *)
(* as the last of these sets it.                                           *)
Merging ==
  outcome # "error" =>
    /\ outcome # "loading" =>
         /\ folder = 4 /\ agenda = <<>> /\ queue = <<>> /\ docs = <<>>
         /\ InstallerPatch \in In(patches)
    /\ merged <= Len(patches)
    /\ outcome = "ok" => merged = Len(patches)
    /\ DOMAIN cfg = UNION {DOMAIN patches[i].set : i \in 1 .. merged}
    /\ \A f \in DOMAIN cfg :
         \E i \in 1 .. merged :
           /\ f \in DOMAIN patches[i].set /\ cfg[f] = patches[i].set[f]
           /\ \A j \in i + 1 .. merged : f \notin DOMAIN patches[j].set

LEMMA MergingApply == ASSUME Types, Merging, Apply PROVE Merging'
  <1>1. /\ outcome = "merging" /\ merged < Len(patches)
        /\ cfg' = Merge(cfg, patches[merged + 1].set) /\ merged' = merged + 1
        /\ UNCHANGED <<folder, agenda, queue, docs, patches, outcome>>
    BY DEF Apply, walk
  <1>2. merged \in Nat /\ Len(patches) \in Nat
    BY DEF Types
  <1>3. PICK n \in Nat : n = merged + 1
    BY <1>2
  <1>4. PICK set : set = patches[n].set
    OBVIOUS
  <1>5. cfg' = [f \in DOMAIN set \cup DOMAIN cfg |-> IF f \in DOMAIN set THEN set[f] ELSE cfg[f]]
    BY <1>1, <1>3, <1>4 DEF Merge
  <1>6. 1 .. n = 1 .. merged \cup {n}
    BY <1>2, <1>3
  <1>7. DOMAIN cfg' = UNION {DOMAIN patches[i].set : i \in 1 .. n}
    <2>1. DOMAIN cfg' = DOMAIN set \cup DOMAIN cfg
      BY <1>5
    <2>2. DOMAIN cfg = UNION {DOMAIN patches[i].set : i \in 1 .. merged}
      BY <1>1 DEF Merging
    <2>. QED  BY <1>4, <1>6, <2>1, <2>2
  <1>8. ASSUME NEW f \in DOMAIN cfg'
        PROVE  \E i \in 1 .. n :
                 /\ f \in DOMAIN patches[i].set /\ cfg'[f] = patches[i].set[f]
                 /\ \A j \in i + 1 .. n : f \notin DOMAIN patches[j].set
    <2>1. CASE f \in DOMAIN set
      <3>1. n \in 1 .. n /\ n + 1 .. n = {}
        BY <1>2, <1>3
      <3>2. cfg'[f] = patches[n].set[f]
        BY <1>4, <1>5, <2>1
      <3>. QED  BY <1>4, <2>1, <3>1, <3>2
    <2>2. CASE f \notin DOMAIN set
      <3>1. f \in DOMAIN cfg /\ cfg'[f] = cfg[f]
        BY <1>5, <2>2
      <3>2. PICK i \in 1 .. merged :
              /\ f \in DOMAIN patches[i].set /\ cfg[f] = patches[i].set[f]
              /\ \A j \in i + 1 .. merged : f \notin DOMAIN patches[j].set
        BY <1>1, <3>1 DEF Merging
      <3>3. ASSUME NEW j \in i + 1 .. n PROVE f \notin DOMAIN patches[j].set
        <4>1. CASE j = n
          BY <1>4, <2>2, <4>1
        <4>2. CASE j # n
          <5>1. j \in i + 1 .. merged
            BY <1>2, <1>3, <4>2
          <5>. QED  BY <3>2, <5>1
        <4>. QED  BY <4>1, <4>2
      <3>4. i \in 1 .. n
        BY <1>6
      <3>. QED  BY <3>1, <3>2, <3>3, <3>4
    <2>. QED  BY <2>1, <2>2
  <1>9. merged' <= Len(patches) /\ merged' = n
    BY <1>1, <1>2, <1>3
  <1>10. /\ folder = 4 /\ agenda = <<>> /\ queue = <<>> /\ docs = <<>>
         /\ InstallerPatch \in In(patches)
    BY <1>1 DEF Merging
  <1>11. \A f \in DOMAIN cfg' :
           \E i \in 1 .. merged' :
             /\ f \in DOMAIN patches'[i].set /\ cfg'[f] = patches'[i].set[f]
             /\ \A j \in i + 1 .. merged' : f \notin DOMAIN patches'[j].set
    BY <1>1, <1>8, <1>9
  <1>12. DOMAIN cfg' = UNION {DOMAIN patches'[i].set : i \in 1 .. merged'}
    BY <1>1, <1>7, <1>9
  <1>13. outcome' = "merging" /\ merged' <= Len(patches')
    BY <1>1, <1>9
  <1>14. /\ folder' = 4 /\ agenda' = <<>> /\ queue' = <<>> /\ docs' = <<>>
         /\ InstallerPatch \in In(patches')
    BY <1>1, <1>10
  <1>. QED  BY <1>11, <1>12, <1>13, <1>14 DEF Merging

LEMMA NothingMerged ==
  ASSUME Types, outcome = "loading", merged = 0, cfg = [f \in {} |-> {}]
  PROVE  Merging
  <1>1. 1 .. 0 = {} /\ DOMAIN cfg = {} /\ Len(patches) \in Nat /\ 0 <= Len(patches)
    BY DEF Types
  <1>2. DOMAIN cfg = UNION {DOMAIN patches[i].set : i \in 1 .. merged}
    BY <1>1
  <1>. QED  BY <1>1, <1>2 DEF Merging

LEMMA MergingStep == Types /\ Types' /\ Merging /\ [Next]_vars => Merging'
  <1>. SUFFICES ASSUME Types, Types', Merging, [Next]_vars PROVE Merging'
    OBVIOUS
  <1>1. CASE UNCHANGED vars
    BY <1>1 DEF Merging, vars, walk
  <1>2. CASE outcome' = "error"
    BY <1>2 DEF Merging
  <1>3. CASE Loading'
    <2>1. Merging'
      <3>1. merged' = 0 /\ cfg' = [f \in {} |-> {}] /\ Len(patches') \in Nat
        BY <1>3 DEF Types
      <3>2. 1 .. 0 = {} /\ DOMAIN cfg' = {} /\ 0 <= Len(patches')
        BY <3>1
      <3>3. DOMAIN cfg' = UNION {DOMAIN patches'[i].set : i \in 1 .. merged'}
        BY <3>1, <3>2
      <3>. QED  BY <1>3, <3>1, <3>2, <3>3 DEF Merging, Loading
    <2>. QED  BY <2>1
  <1>4. CASE Return
    <2>1. /\ agenda' = <<>> /\ queue' = <<>> /\ docs' = <<>> /\ folder' = 4
          /\ patches' = <<InstallerPatch>> \o patches /\ outcome' = "merging"
          /\ merged' = 0 /\ cfg' = [f \in {} |-> {}]
      <3>1. folder = 4
        BY <1>4 DEF Return, Types, Folders
      <3>. QED  BY <1>4, <3>1 DEF Return, walk, Types
    <2>2. InstallerPatch \in In(patches')
      <3>1. patches \in Seq(AllPatches) /\ InstallerPatch \in AllPatches
        BY InstallerIn DEF Types
      <3>2. In(<<InstallerPatch>> \o patches) = {InstallerPatch} \cup In(patches)
        BY <3>1, InOne
      <3>. QED  BY <2>1, <3>2
    <2>3. 1 .. 0 = {} /\ DOMAIN cfg' = {} /\ Len(patches') \in Nat /\ 0 <= Len(patches')
      BY <2>1 DEF Types
    <2>4. DOMAIN cfg' = UNION {DOMAIN patches'[i].set : i \in 1 .. merged'}
      BY <2>1, <2>3
    <2>. QED  BY <2>1, <2>2, <2>3, <2>4 DEF Merging
  <1>5. CASE Apply
    BY <1>5, MergingApply
  <1>6. CASE NewBundle
    BY <1>6 DEF NewBundle, Merging, walk
  <1>7. ASSUME WalkFolder \/ VisitDirectory \/ VisitFile \/ VisitNothing
        PROVE  Loading'
    BY <1>7 DEF WalkFolder, VisitDirectory, VisitFile, VisitNothing, Visits, Loading
  <1>8. ASSUME VisitDenied PROVE outcome' = "error"
    BY <1>8 DEF VisitDenied, Fail
  <1>9. ASSUME ReadFile \/ ParseDocument PROVE outcome' = "error" \/ Loading'
    BY <1>9 DEF ReadFile, ParseDocument, Fail, Loading
  <1>. QED  BY <1>1, <1>2, <1>3, <1>4, <1>5, <1>6, <1>7, <1>8, <1>9 DEF Next

-----------------------------------------------------------------------------
(* The inductive invariant *)
IInv == Types /\ Ordered /\ FolderFirst /\ Covered /\ ErrorRight /\ Merging

THEOREM PatchesIInv == Spec => []IInv
  <1>1. Init => IInv
    <2>. SUFFICES ASSUME Init PROVE IInv
      OBVIOUS
    <2>1. Types
      BY TypesInit
    <2>2. agenda = <<>> /\ folder = 1 /\ outcome = "loading" /\ merged = 0 /\ cfg = [f \in {} |-> {}]
      BY DEF Init
    <2>3. FolderFirst
      BY <2>2, InNothing DEF FolderFirst
    <2>4. Covered
      <3>1. ASSUME NEW p \in DOMAIN tree PROVE ~(p[1] < folder)
        <4>1. p[1] \in 1 .. 3
          BY <2>1, PlaceInTree DEF Types, Folders
        <4>. QED  BY <2>2, <4>1
      <3>. QED  BY <3>1 DEF Covered
    <2>5. ErrorRight
      BY <2>2 DEF ErrorRight
    <2>6. Merging
      BY <2>1, <2>2, NothingMerged
    <2>. QED  BY <2>1, <2>3, <2>4, <2>5, <2>6, OrderedInit DEF IInv
  <1>2. IInv /\ [Next]_vars => IInv'
    BY TypesStep, OrderedStep, FolderFirstStep, CoveredStep, ErrorRightStep, MergingStep
       DEF IInv
  <1>. QED  BY <1>1, <1>2, PTL DEF Spec

(* When all is merged, every file was read and found good.                 *)
LEMMA AllRead ==
  ASSUME IInv, outcome = "ok", FoldersComplete
  PROVE  /\ \A p \in DOMAIN tree : tree[p].kind # "denied"
         /\ \A p \in Files : Loaded(p)
         /\ In(docs) = {}
  <1>1. folder = 4 /\ agenda = <<>> /\ queue = <<>> /\ docs = <<>>
    BY DEF IInv, Merging
  <1>2. In(agenda) = {} /\ In(queue) = {} /\ In(docs) = {}
    BY <1>1, InNothing
  <1>3. ASSUME NEW p \in DOMAIN tree PROVE Seen(p)
    <2>1. p[1] \in 1 .. 3
      BY PlaceInTree DEF IInv, Types, Folders
    <2>2. p[1] < folder
      BY <1>1, <2>1
    <2>. QED  BY <1>2, <2>2 DEF IInv, Covered
  <1>4. \A p \in Files : Seen(p)
    BY <1>3 DEF Files
  <1>. QED  BY <1>2, <1>3, <1>4 DEF Seen

LEMMA AllMerged ==
  ASSUME IInv, outcome = "ok", FoldersComplete
  PROVE  In(patches) = AllPatches
  <1>1. patches \in Seq(AllPatches) /\ InstallerPatch \in In(patches)
    BY DEF IInv, Types, Merging
  <1>2. In(patches) \subseteq AllPatches
    BY <1>1 DEF In
  <1>3. ASSUME NEW d \in Documents, d.kind = "map" PROVE d \in In(patches)
    <2>1. PICK p \in Files : \E i \in DOMAIN tree[p].body : d = Document(p, i)
      BY DEF Documents
    <2>2. PICK i \in DOMAIN tree[p].body : d = Document(p, i)
      BY <2>1
    <2>3. Loaded(p) /\ In(docs) = {}
      BY AllRead
    <2>4. Skipped(d) \/ d \in In(patches)
      BY <2>2, <2>3 DEF Loaded
    <2>. QED  BY <1>3, <2>4 DEF Skipped
  <1>. QED  BY <1>1, <1>2, <1>3 DEF AllPatches

(* MergedAsDocumented: for every directory without dangling links and      *)
(* without documents [], however deep, and every set of tools, the config  *)
(* has for each field the setting of the latest document in the order of   *)
(* the docs, the installer image first of all; and there is none exactly   *)
(* when a file is bad.                                                     *)
THEOREM PatchesMergedAsDocumented == Spec => []MergedAsDocumented
  <1>1. IInv => MergedAsDocumented
    <2>. SUFFICES ASSUME IInv, outcome \in {"ok", "error"}, FoldersComplete, NoEmptyArray
                  PROVE
                    /\ outcome = "error" <=> \/ \E p \in Files : Broken(tree[p])
                                             \/ \E p \in DOMAIN tree : tree[p].kind = "denied"
                    /\ outcome = "ok" =>
                         /\ DOMAIN cfg = UNION {DOMAIN d.set : d \in AllPatches}
                         /\ \A f \in DOMAIN cfg :
                              \E d \in AllPatches :
                                /\ f \in DOMAIN d.set /\ cfg[f] = d.set[f]
                                /\ \A e \in AllPatches : f \in DOMAIN e.set => ~Later(e.at, d.at)
      BY DEF MergedAsDocumented
    <2>1. CASE outcome = "error"
      BY <2>1 DEF IInv, ErrorRight
    <2>2. CASE outcome = "ok"
      <3>1. ASSUME NEW p \in Files PROVE ~Broken(tree[p])
        <4>1. Loaded(p) /\ In(docs) = {}
          BY <2>2, AllRead
        <4>2. ASSUME NEW i \in DOMAIN tree[p].body PROVE ~Rejected(tree[p].body[i])
          <5>1. ~Rejected(Document(p, i))
            BY <4>1 DEF Loaded
          <5>2. Document(p, i).kind = tree[p].body[i].kind
            BY DEF Document
          <5>. QED  BY <5>1, <5>2 DEF Rejected
        <4>3. ~Unreadable(tree[p])
          BY <4>1 DEF Loaded
        <4>. QED  BY <4>2, <4>3 DEF Broken
      <3>2. \A p \in DOMAIN tree : tree[p].kind # "denied"
        BY <2>2, AllRead
      <3>3. In(patches) = AllPatches
        BY <2>2, AllMerged
      <3>4. /\ merged = Len(patches)
            /\ DOMAIN cfg = UNION {DOMAIN patches[i].set : i \in 1 .. merged}
            /\ \A f \in DOMAIN cfg :
                 \E i \in 1 .. merged :
                   /\ f \in DOMAIN patches[i].set /\ cfg[f] = patches[i].set[f]
                   /\ \A j \in i + 1 .. merged : f \notin DOMAIN patches[j].set
        BY <2>2 DEF IInv, Merging
      <3>5. DOMAIN patches = 1 .. merged /\ merged \in Nat
        BY <3>4 DEF IInv, Types
      <3>6. In(patches) = {patches[i] : i \in 1 .. merged}
        BY <3>5 DEF In
      <3>7. DOMAIN cfg = UNION {DOMAIN d.set : d \in AllPatches}
        <4>1. UNION {DOMAIN d.set : d \in AllPatches}
                = UNION {DOMAIN d.set : d \in {patches[i] : i \in 1 .. merged}}
          BY <3>3, <3>6
        <4>2. UNION {DOMAIN d.set : d \in {patches[i] : i \in 1 .. merged}}
                = UNION {DOMAIN patches[i].set : i \in 1 .. merged}
          OBVIOUS
        <4>. QED  BY <3>4, <4>1, <4>2
      <3>8. ASSUME NEW f \in DOMAIN cfg
            PROVE  \E d \in AllPatches :
                     /\ f \in DOMAIN d.set /\ cfg[f] = d.set[f]
                     /\ \A e \in AllPatches : f \in DOMAIN e.set => ~Later(e.at, d.at)
        <4>1. PICK i \in 1 .. merged :
                /\ f \in DOMAIN patches[i].set /\ cfg[f] = patches[i].set[f]
                /\ \A j \in i + 1 .. merged : f \notin DOMAIN patches[j].set
          BY <3>4
        <4>2. patches[i] \in AllPatches
          BY <3>3, <3>6
        <4>3. ASSUME NEW e \in AllPatches, f \in DOMAIN e.set
              PROVE  ~Later(e.at, patches[i].at)
          <5>1. PICK j \in 1 .. merged : e = patches[j]
            BY <3>3, <3>6
          <5>2. j <= i
            <6>1. ~(j \in i + 1 .. merged)
              BY <4>1, <4>3, <5>1
            <6>. QED  BY <3>5, <6>1
          <5>3. PICK p : p = patches[i].at
            OBVIOUS
          <5>4. PICK q : q = e.at
            OBVIOUS
          <5>5. p \in Seq(Nat) /\ q \in Seq(Nat)
            <6>1. p \in PatchPlaces /\ q \in PatchPlaces
              BY <3>5, <5>1, <5>3, <5>4 DEF PatchPlaces, In, At
            <6>. QED  BY <6>1, AllPlaces DEF IInv
          <5>6. CASE j < i
            <6>1. At(patches) = [k \in 1 .. merged |-> patches[k].at]
              BY <3>5 DEF At
            <6>2. Rising(At(patches))
              BY DEF IInv, Ordered
            <6>3. Later(At(patches)[i], At(patches)[j])
              BY <5>6, <6>1, <6>2 DEF Rising
            <6>4. Later(p, q)
              BY <5>1, <5>3, <5>4, <6>1, <6>3
            <6>. QED  BY <5>3, <5>4, <5>5, <6>4, LaterAsymmetric
          <5>7. CASE j = i
            <6>1. p = q
              BY <5>1, <5>3, <5>4, <5>7
            <6>2. ~Later(q, p)
              BY <5>5, <6>1, LaterAsymmetric
            <6>. QED  BY <5>3, <5>4, <6>2
          <5>. QED  BY <3>5, <5>2, <5>6, <5>7
        <4>. QED  BY <4>1, <4>2, <4>3
      <3>. QED  BY <2>2, <3>1, <3>2, <3>7, <3>8
    <2>. QED  BY <2>1, <2>2
  <1>. QED  BY <1>1, PatchesIInv, PTL

(* SecretsComplete: every string that decryption or a vals reference put   *)
(* in place of another, in any document of any file, is among the secrets  *)
(* that Load returns.                                                      *)
THEOREM PatchesSecretsComplete == Spec => []SecretsComplete
  <1>1. IInv => SecretsComplete
    <2>. SUFFICES ASSUME IInv, outcome = "ok", FoldersComplete,
                         NEW p \in Files, NEW i \in DOMAIN tree[p].body,
                         NEW f \in DOMAIN tree[p].body[i].set,
                         Hidden(tree[p], tree[p].body[i].set[f])
                  PROVE  Value(tree[p], tree[p].body[i].set[f]) \in secrets
      BY DEF SecretsComplete
    <2>1. Loaded(p)
      BY AllRead
    <2>. QED  BY <2>1 DEF Loaded
  <1>. QED  BY <1>1, PatchesIInv, PTL
=============================================================================
