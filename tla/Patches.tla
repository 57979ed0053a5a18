------------------------------ MODULE Patches -------------------------------
(***************************************************************************)
(* PatchContext.Load (src/pkg/config/patches.go) and what generateNodeConfig *)
(* makes of its result: the patch files of the folders all, <role> and     *)
(* node/<host> are found by walking the folders, read through sops and     *)
(* vals or rendered as templates, parsed into patches, and merged over the *)
(* installer patch.                                                        *)
(*                                                                         *)
(* A patches directory is a function from places to entries: the three     *)
(* folders are at <<1>>, <<2>> and <<3>>, and the i-th entry by name of a  *)
(* directory at p is at Append(p, i).  An entry is a "file", a "dir" of so *)
(* many entries, "nothing" or "denied"; a link is what it resolves to.  A  *)
(* value in a document stands for itself, for a ciphertext of another      *)
(* value or for a vals reference to one.                                   *)
(***************************************************************************)
EXTENDS Naturals, Sequences

CONSTANTS
  Trees,        (* what patchesDir may hold                                *)
  Toolboxes,    (* subsets of {"sops", "key", "vals"}: what is installed   *)
  Installer     (* the fields that the installer image patch sets          *)

Folders == 1 .. 3

(* A body is a sequence of documents, each with a function from fields to  *)
(* values; the directories above a place are there, and hold it.           *)
IsBody(body) ==
  /\ Len(body) \in Nat /\ DOMAIN body = 1 .. Len(body)
  /\ \A i \in DOMAIN body :
       body[i].set = [f \in DOMAIN body[i].set |-> body[i].set[f]]

IsTree(t) ==
  /\ \A k \in Folders : <<k>> \in DOMAIN t
  /\ \A p \in DOMAIN t :
       /\ p \in Seq(Nat) /\ p # <<>> /\ p[1] \in Folders
       /\ \A n \in 1 .. Len(p) - 1 :
            LET above == SubSeq(p, 1, n)
            IN /\ above \in DOMAIN t /\ t[above].kind = "dir"
               /\ p[n + 1] \in 1 .. t[above].size
       /\ t[p].kind \in {"file", "dir", "nothing", "denied"}
       /\ t[p].kind = "dir" =>
            t[p].size \in Nat /\ \A i \in 1 .. t[p].size : Append(p, i) \in DOMAIN t
       /\ t[p].kind = "file" => IsBody(t[p].body)

ASSUME PatchesAssumption == \A t \in Trees : IsTree(t)

VARIABLES
  tree,     (* the patches directory                                       *)
  tools,    (* the programs on PATH, and the sops key                      *)
  folder,   (* the folder that Load walks next                             *)
  agenda,   (* what the walk of a folder has yet to visit                  *)
  queue,    (* filePaths: files found and not read yet                     *)
  docs,     (* documents of a file that was read and are not parsed yet    *)
  patches,  (* patches so far                                              *)
  secrets,  (* secrets so far                                              *)
  merged,   (* how many patches are merged                                 *)
  cfg,      (* the fields of the config that patches set                   *)
  outcome   (* "loading", "merging"; "ok" or "error" in the end            *)

walk == <<folder, agenda, queue, docs>>
vars == <<tree, tools, walk, patches, secrets, merged, cfg, outcome>>

Init ==
  /\ tree \in Trees /\ tools \in Toolboxes
  /\ folder = 1 /\ agenda = <<>> /\ queue = <<>> /\ docs = <<>>
  /\ patches = <<>> /\ secrets = {}
  /\ merged = 0 /\ cfg = [f \in {} |-> {}]
  /\ outcome = "loading"

-----------------------------------------------------------------------------
(* Values: text and numbers, enc for a string that begins with ENC[, ref   *)
(* for one that begins with ref+.                                          *)
Decrypted(v) == IF v.form = "enc" THEN v.of ELSE v
Evaluated(v) == IF v.form = "ref" THEN v.of ELSE v

(* Documents have a kind, and set fields to values. *)
Convert(body, Op(_)) ==
  [i \in DOMAIN body |->
     [kind |-> body[i].kind,
      set  |-> [f \in DOMAIN body[i].set |-> Op(body[i].set[f])]]]

Has(body, form) ==
  \E i \in DOMAIN body : \E f \in DOMAIN body[i].set : body[i].set[f].form = form

(* yamlutils.ExtractSecrets: the strings that after holds at the paths     *)
(* where before holds a string of the form looked for.                     *)
ExtractSecrets(before, after, form) ==
  UNION {{after[i].set[f] : f \in {g \in DOMAIN before[i].set :
            before[i].set[g].form = form /\ after[i].set[g].form # "number"}} :
         i \in DOMAIN before}

Failure == [ok |-> FALSE, body |-> <<>>, secrets |-> {}]
Content(body, found) == [ok |-> TRUE, body |-> body, secrets |-> found]

(* sops.IsEncrypted and Decrypt: without sops the file is taken as it is.  *)
Sops(body) ==
  LET plain == Convert(body, Decrypted)
  IN IF ~Has(body, "enc") \/ "sops" \notin tools THEN Content(body, {})
     ELSE IF "key" \notin tools THEN Failure
     ELSE Content(plain, ExtractSecrets(body, plain, "enc"))

(* vals.EvalContent. *)
Vals(body) ==
  LET value == Convert(body, Evaluated)
  IN IF ~Has(body, "ref") THEN Content(body, {})
     ELSE IF "vals" \notin tools THEN Failure
     ELSE Content(value, ExtractSecrets(body, value, "ref"))

(* A file is known by the end of its name; a link to a file is judged by   *)
(* the name of its target, and is a template or not by its own.            *)
Matches(file) == file.target \in {"yaml", "tpl"}
Template(file) == file.name = "tpl"

(* Mutant of LoadFile: vals is asked first. *)
LoadFileValsFirst(file) ==
  IF Template(file) THEN Content(file.body, {})
  ELSE LET v == Vals(file.body)
           s == Sops(v.body)
       IN IF v.ok /\ s.ok THEN Content(s.body, v.secrets \cup s.secrets)
                          ELSE Failure

(* loadFile: a template is rendered from the raw file, anything else goes  *)
(* through sops and then vals (Cache.ReadFile).  A file that cannot be     *)
(* read or rendered stands as one with a broken document.                  *)
LoadFile(file) ==
  IF Template(file) THEN Content(file.body, {})
  ELSE LET s == Sops(file.body)
           v == Vals(s.body)
       IN IF s.ok /\ v.ok THEN Content(v.body, s.secrets \cup v.secrets)
                          ELSE Failure

(* parsePatches: nil and {} ("empty") are skipped; scalars, unknown fields *)
(* and broken YAML are errors, and so is every array, JSON patches ("array") *)
(* and the [] that the docs list among the skipped ones ("emptyarray").    *)
Skipped(doc) == doc.kind = "empty"
Rejected(doc) == doc.kind \notin {"map", "empty"}

-----------------------------------------------------------------------------
(* Load returns an error and nothing else. *)
Fail ==
  /\ outcome' = "error"
  /\ agenda' = <<>> /\ queue' = <<>> /\ docs' = <<>>
  /\ patches' = <<>> /\ secrets' = {}
  /\ UNCHANGED <<tree, tools, folder, merged, cfg>>

Loading == outcome = "loading"

(* Mutant of WalkFolder: the folders in the order of precedence. *)
WalkFolderLastFirst ==
  /\ Loading /\ agenda = <<>> /\ queue = <<>> /\ docs = <<>>
  /\ folder \in Folders
  /\ agenda' = <<<<4 - folder>>>>
  /\ folder' = folder + 1
  /\ UNCHANGED <<tree, tools, queue, docs, patches, secrets, merged, cfg, outcome>>

(* loadFolder walks the next folder. *)
WalkFolder ==
  /\ Loading /\ agenda = <<>> /\ queue = <<>> /\ docs = <<>>
  /\ folder \in Folders
  /\ agenda' = <<<<folder>>>>
  /\ folder' = folder + 1
  /\ UNCHANGED <<tree, tools, queue, docs, patches, secrets, merged, cfg, outcome>>

(* walkFunc, on the next entry: on a directory or a link to one, whose     *)
(* entries come next in the order of their names;                          *)
Visits(kind) == Loading /\ agenda # <<>> /\ tree[Head(agenda)].kind = kind

EntriesOf(p) == [i \in 1 .. tree[p].size |-> Append(p, i)]

VisitDirectory ==
  /\ Visits("dir")
  /\ agenda' = EntriesOf(Head(agenda)) \o Tail(agenda)
  /\ UNCHANGED <<tree, tools, folder, queue, docs, patches, secrets, merged, cfg, outcome>>

(* on a file or a link to one, which is wanted if the name matches;        *)
VisitFile ==
  /\ Visits("file")
  /\ agenda' = Tail(agenda)
  /\ queue' = IF Matches(tree[Head(agenda)]) THEN Append(queue, Head(agenda)) ELSE queue
  /\ UNCHANGED <<tree, tools, folder, docs, patches, secrets, merged, cfg, outcome>>

(* on what does not exist, a folder or the target of a link: the walk ends *)
(* and its folder has no patches;                                          *)
VisitNothing ==
  /\ Visits("nothing")
  /\ agenda' = <<>> /\ queue' = <<>>
  /\ UNCHANGED <<tree, tools, folder, docs, patches, secrets, merged, cfg, outcome>>

(* on what cannot be visited for any other reason. *)
VisitDenied == Visits("denied") /\ Fail

(* loadFolder reads the next file, *)
ReadFile ==
  /\ Loading /\ agenda = <<>> /\ docs = <<>> /\ queue # <<>>
  /\ LET p == Head(queue)
         c == LoadFile(tree[p])
     IN \/ ~c.ok /\ Fail
        \/ /\ c.ok
           /\ docs' = [i \in DOMAIN c.body |->
                         [at |-> Append(p, i), kind |-> c.body[i].kind, set |-> c.body[i].set]]
           /\ secrets' = secrets \cup c.secrets
           /\ queue' = Tail(queue)
           /\ UNCHANGED <<tree, tools, folder, agenda, patches, merged, cfg, outcome>>

(* and parsePatches takes one document of it after another. *)
ParseDocument ==
  /\ Loading /\ docs # <<>>
  /\ \/ Rejected(Head(docs)) /\ Fail
     \/ /\ ~Rejected(Head(docs))
        /\ patches' = IF Skipped(Head(docs)) THEN patches ELSE Append(patches, Head(docs))
        /\ docs' = Tail(docs)
        /\ UNCHANGED <<tree, tools, folder, agenda, queue, secrets, merged, cfg, outcome>>

(* Load returns, and generateNodeConfig puts the installer patch first. *)
InstallerPatch == [at |-> <<0>>, kind |-> "map", set |-> Installer]

Return ==
  /\ Loading /\ agenda = <<>> /\ queue = <<>> /\ docs = <<>> /\ folder \notin Folders
  /\ patches' = <<InstallerPatch>> \o patches
  /\ outcome' = "merging"
  /\ UNCHANGED <<tree, tools, walk, secrets, merged, cfg>>

(* NewBundle applies the patches in turn.  A strategic merge keeps the     *)
(* fields that a patch does not set.                                       *)
Merge(fields, set) ==
  [f \in DOMAIN set \cup DOMAIN fields |-> IF f \in DOMAIN set THEN set[f] ELSE fields[f]]

Apply ==
  /\ outcome = "merging" /\ merged < Len(patches)
  /\ cfg' = Merge(cfg, patches[merged + 1].set)
  /\ merged' = merged + 1
  /\ UNCHANGED <<tree, tools, walk, patches, secrets, outcome>>

NewBundle ==
  /\ outcome = "merging" /\ merged = Len(patches)
  /\ outcome' = "ok"
  /\ UNCHANGED <<tree, tools, walk, patches, secrets, merged, cfg>>

Next ==
  \/ WalkFolder \/ VisitDirectory \/ VisitFile \/ VisitNothing \/ VisitDenied
  \/ ReadFile \/ ParseDocument \/ Return \/ Apply \/ NewBundle

Spec == Init /\ [][Next]_vars

-----------------------------------------------------------------------------
(* The reference, from docs/configuration-model.md: every document of      *)
(* every file of the three folders, by its place.                          *)
Files == {p \in DOMAIN tree : tree[p].kind = "file" /\ Matches(tree[p])}

(* What a value of a readable file is in the config. *)
Opened(file, v) == IF ~Template(file) /\ "sops" \in tools THEN Decrypted(v) ELSE v
Value(file, v) == IF Template(file) THEN v ELSE Evaluated(Opened(file, v))

Document(p, i) ==
  LET doc == tree[p].body[i]
  IN [at   |-> Append(p, i), kind |-> doc.kind,
      set  |-> [f \in DOMAIN doc.set |-> Value(tree[p], doc.set[f])]]

Documents == UNION {{Document(p, i) : i \in DOMAIN tree[p].body} : p \in Files}

AllPatches == {InstallerPatch} \cup {d \in Documents : d.kind = "map"}

(* Places are compared position by position. *)
Later(p, q) ==
  \E i \in DOMAIN p \cap DOMAIN q : p[i] > q[i] /\ \A j \in 1 .. i - 1 : p[j] = q[j]

(* A ciphertext and no key for it, or a reference and no vals to evaluate  *)
(* it; or a document that is no patch.                                     *)
Unreadable(file) ==
  /\ ~Template(file)
  /\ \/ Has(file.body, "enc") /\ "sops" \in tools /\ "key" \notin tools
     \/ /\ "vals" \notin tools
        /\ \E i \in DOMAIN file.body : \E f \in DOMAIN file.body[i].set :
             Opened(file, file.body[i].set[f]).form = "ref"

Broken(file) == Unreadable(file) \/ \E i \in DOMAIN file.body : Rejected(file.body[i])

FoldersComplete == \A p \in DOMAIN tree : Len(p) > 1 => tree[p].kind # "nothing"

NoEmptyArray ==
  \A p \in Files : \A i \in DOMAIN tree[p].body : tree[p].body[i].kind # "emptyarray"

(* The config has, for each field, the setting of the most specific folder *)
(* and in it of the last file and document, the installer image included;  *)
(* or no config at all when any file of the node is bad.  Excepted are     *)
(* trees with a dangling link (see VisitNothing), and trees with a         *)
(* document [], which docs/configuration-model.md:52 says is skipped and   *)
(* the code refuses (see Rejected).                                        *)
MergedAsDocumented ==
  outcome \in {"ok", "error"} /\ FoldersComplete /\ NoEmptyArray =>
    /\ outcome = "error" <=> \/ \E p \in Files : Broken(tree[p])
                             \/ \E p \in DOMAIN tree : tree[p].kind = "denied"
    /\ outcome = "ok" =>
         /\ DOMAIN cfg = UNION {DOMAIN d.set : d \in AllPatches}
         /\ \A f \in DOMAIN cfg :
              \E d \in AllPatches :
                /\ f \in DOMAIN d.set /\ cfg[f] = d.set[f]
                /\ \A e \in AllPatches : f \in DOMAIN e.set => ~Later(e.at, d.at)

(* Every string that a patch got from decryption or from a vals reference, *)
(* through both where a ciphertext hides a reference, is among the secrets *)
(* that Load returns, whatever folder and document it is from.  Numbers    *)
(* are excepted: ExtractSecrets takes strings only.                        *)
Hidden(file, v) == Value(file, v) # v /\ Value(file, v).form # "number"

SecretsComplete ==
  outcome = "ok" /\ FoldersComplete =>
    \A p \in Files : \A i \in DOMAIN tree[p].body :
      \A f \in DOMAIN tree[p].body[i].set :
        LET v == tree[p].body[i].set[f]
        IN Hidden(tree[p], v) => Value(tree[p], v) \in secrets
=============================================================================
