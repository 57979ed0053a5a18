----------------------------- MODULE MaskedWriter -----------------------------
(***************************************************************************)
(* maskedwriter.Writer (src/internal/maskedwriter/maskedwriter.go), which  *)
(* the commands print machine configs and their diffs through: goroutines  *)
(* register secrets and write at any time, in pieces that may cut a secret *)
(* anywhere.  A Write holds the mutex while drainPending goes round its    *)
(* loop, one step per turn.                                                *)
(***************************************************************************)
EXTENDS Integers, SequencesExt

CONSTANTS
  Chars,     (* the bytes that are written                                 *)
  Newline,   (* the one that ends a line                                   *)
  Secrets,   (* the strings that may be registered: none has a Newline     *)
  MaxChunk,  (* bound: bytes of one Write                                  *)
  MaxLen     (* bound: bytes written altogether                            *)

Redacted == "redacted"   \* the marker, one element of the output

ASSUME WriterAssumption ==
  /\ Newline \in Chars /\ Redacted \notin Chars
  /\ MaxChunk \in Nat /\ MaxLen \in Nat
  /\ \A s \in Secrets : s \in Seq(Chars \ {Newline}) /\ s # <<>>

VARIABLES
  secrets,   (* Writer.secrets                                             *)
  pending,   (* Writer.pending                                             *)
  busy,      (* Writer.mu is held by a Write                               *)
  out,       (* what the inner writer was given                            *)
  written,   (* history: the bytes passed to Write                         *)
  since      (* history: since[s]: length of out when s was registered     *)

vars == <<secrets, pending, busy, out, written, since>>

Init ==
  /\ secrets = {} /\ pending = <<>> /\ busy = FALSE
  /\ out = <<>> /\ written = <<>> /\ since = [s \in Secrets |-> 0]

Rest(buf, n) == SubSeq(buf, n + 1, Len(buf))

(* Mutants of CouldGrowIntoSecret: only the last missing byte is waited    *)
(* for; anything shorter than a secret is held back.                       *)
AlmostASecret(buf, known) ==
  \E s \in known : Len(s) = Len(buf) + 1 /\ IsPrefix(buf, s)

ShorterThanASecret(buf, known) == \E s \in known : Len(s) > Len(buf)

CouldGrowIntoSecret(buf, known) ==
  \E s \in known : Len(s) > Len(buf) /\ IsPrefix(buf, s)

(* The secrets that buf starts with, and the longest of them. *)
MatchesAtStart(buf, known) == {s \in known : IsPrefix(s, buf)}

LongestMatchAtStart(buf, known) ==
  {s \in MatchesAtStart(buf, known) :
     \A t \in MatchesAtStart(buf, known) : Len(t) <= Len(s)}

-----------------------------------------------------------------------------
AddSecrets(s) ==
  /\ ~busy
  /\ s \notin secrets
  /\ secrets' = secrets \cup {s}
  /\ since' = [since EXCEPT ![s] = Len(out)]
  /\ UNCHANGED <<pending, busy, out, written>>

Write(p) ==
  /\ ~busy
  /\ Len(written) + Len(p) <= MaxLen
  /\ written' = written \o p
  /\ pending' = pending \o p
  /\ busy' = TRUE
  /\ UNCHANGED <<secrets, out, since>>

(* drainPending leaves its loop, and Write returns. *)
Pause ==
  /\ busy
  /\ pending = <<>> \/ CouldGrowIntoSecret(pending, secrets)
  /\ busy' = FALSE
  /\ UNCHANGED <<secrets, pending, out, written, since>>

(* The loop goes on. *)
Draining == busy /\ pending # <<>> /\ ~CouldGrowIntoSecret(pending, secrets)

Redact ==
  /\ Draining
  /\ \E s \in LongestMatchAtStart(pending, secrets) :
       pending' = Rest(pending, Len(s))
  /\ out' = Append(out, Redacted)
  /\ UNCHANGED <<secrets, busy, written, since>>

(* Mutant of Emit: all that is pending goes out at once. *)
EmitAll ==
  /\ Draining
  /\ MatchesAtStart(pending, secrets) = {}
  /\ out' = out \o pending
  /\ pending' = <<>>
  /\ UNCHANGED <<secrets, busy, written, since>>

Emit ==
  /\ Draining
  /\ MatchesAtStart(pending, secrets) = {}
  /\ out' = Append(out, Head(pending))
  /\ pending' = Rest(pending, 1)
  /\ UNCHANGED <<secrets, busy, written, since>>

Chunks == UNION {[1 .. n -> Chars] : n \in 1 .. MaxChunk}

(* Close is called by no command, so it is not a step of the program. *)
Next ==
  \/ \E s \in Secrets : AddSecrets(s)
  \/ \E p \in Chunks : Write(p)
  \/ Pause \/ Redact \/ Emit

Spec == Init /\ [][Next]_vars

-----------------------------------------------------------------------------
(* No secret is ever printed once it is registered, however the writes cut *)
(* it and whatever secrets overlap it.                                     *)
NoSecretShown ==
  \A s \in secrets :
    \A k \in since[s] + 1 .. Len(out) - Len(s) + 1 :
      SubSeq(out, k, k + Len(s) - 1) # s

(* Reference: a text that is there as a whole, from left to right with the *)
(* longest secret at each place replaced.                                  *)
Masked(text, known) ==
  LET from[b \in Seq(Chars)] ==
        IF b = <<>> THEN <<>>
        ELSE IF MatchesAtStart(b, known) = {}
        THEN <<Head(b)>> \o from[Rest(b, 1)]
        ELSE LET s == CHOOSE t \in LongestMatchAtStart(b, known) : TRUE
             IN <<Redacted>> \o from[Rest(b, Len(s))]
  IN from[text]

(* How the text is cut into writes does not matter: if nothing was out yet *)
(* when the secrets were registered, the output and what Close would add   *)
(* to it are the text as a whole, masked.                                  *)
ChunksDoNotMatter ==
  (\A s \in secrets : since[s] = 0) =>
    out \o Masked(pending, secrets) = Masked(written, secrets)

(* A line is out when the Write that ends it returns, so that nothing is   *)
(* lost though no command calls Close.                                     *)
LinesComplete ==
  ~busy /\ written # <<>> /\ Last(written) = Newline => pending = <<>>
=============================================================================
