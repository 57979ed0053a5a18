------------------------------ MODULE MCPatches -----------------------------
(* Small patch directories: each kind of entry in each order in all/, and  *)
(* a few in the folders of the role and of the node.                       *)
EXTENDS Patches

Text(i) == [form |-> "text", id |-> i]
Number(i) == [form |-> "number", id |-> i]
Enc(v) == [form |-> "enc", of |-> v]
Ref(v) == [form |-> "ref", of |-> v]

Setting(f, v) == [kind |-> "map", set |-> [x \in {f} |-> v]]
Other(kind) == [kind |-> kind, set |-> [x \in {} |-> {}]]

Named(name, body) == [kind |-> "file", name |-> name, target |-> name, body |-> body]
File(body) == Named("yaml", body)
Dir(entries) == [kind |-> "dir", holds |-> entries]
Nothing == [kind |-> "nothing"]
Denied == [kind |-> "denied"]

(* A link, called x.yaml or x.tpl, to an entry. *)
Link(name, entry) == IF entry.kind = "file" THEN [entry EXCEPT !.name = name] ELSE entry

Plain == File(<<Setting("image", Text(1)), Other("empty"), Setting("taint", Text(2))>>)
Secret == File(<<Setting("token", Enc(Text(3)))>>)
Vault == File(<<Setting("taint", Text(4)), Setting("token", Ref(Text(5)))>>)
Both == File(<<Setting("token", Enc(Ref(Text(6)))), Setting("image", Enc(Number(7)))>>)
Rendered == Named("tpl", <<Setting("taint", Text(8)), Setting("token", Ref(Text(9)))>>)
Readme == Named("other", <<Other("scalar")>>)

Entries ==
  {Plain, Secret, Vault, Both, Rendered, Readme,
   File(<<Other("empty")>>), File(<<Other("array")>>), File(<<Other("emptyarray")>>),
   Nothing, Denied,
   Link("tpl", Vault), Link("yaml", Rendered), Link("yaml", Readme),
   Dir(<<Secret, Plain>>), Dir(<<Vault, Dir(<<Plain>>)>>)}

AllFolders ==
  {Nothing, Readme, Dir(<<>>)}
    \cup {Dir(<<e>>) : e \in Entries} \cup {Dir(<<e, d>>) : e \in Entries, d \in Entries}
RoleFolders ==
  {Nothing, Dir(<<Both>>), Dir(<<Plain, Nothing>>)}
NodeFolders ==
  {Nothing, Dir(<<File(<<Setting("image", Text(10)), Setting("token", Enc(Text(11)))>>)>>),
   Dir(<<File(<<Setting("taint", Text(12)), Other("unknown")>>)>>)}

(* The places in the entry at a place, and the entry so far below another. *)
RECURSIVE Places(_, _)
Places(entry, place) ==
  {place} \cup IF entry.kind = "dir"
               THEN UNION {Places(entry.holds[i], Append(place, i)) : i \in DOMAIN entry.holds}
               ELSE {}

RECURSIVE EntryBelow(_, _)
EntryBelow(entry, way) ==
  IF way # <<>> THEN EntryBelow(entry.holds[Head(way)], Tail(way))
  ELSE IF entry.kind = "dir" THEN [kind |-> "dir", size |-> Len(entry.holds)]
  ELSE entry

Flat(folders) ==
  [p \in UNION {Places(folders[k], <<k>>) : k \in DOMAIN folders} |->
     EntryBelow(folders[p[1]], Tail(p))]

MCTrees == {Flat(<<a, r, n>>) : a \in AllFolders, r \in RoleFolders, n \in NodeFolders}
MCToolboxes == {{}, {"sops", "vals"}, {"sops", "key"}, {"sops", "key", "vals"}}
MCInstaller == [x \in {"image"} |-> Text(0)]
=============================================================================
