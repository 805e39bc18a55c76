-------------------------------- MODULE VMConf --------------------------------
(***************************************************************************)
(* The heap objects of one VM definition while load_config_file builds it *)
(* (parser.c 1292-1320) with the allocators of conf.c: create_vm_conf,     *)
(* the realloc into a vm_conf_entry, the setters and add_*_conf that      *)
(* vm_conf_set_params calls, and free_vm_conf on the error paths.         *)
(*                                                                         *)
(* Every malloc, calloc, strdup and asprintf may fail.  Objects are the    *)
(* ids 1..MaxAlloc handed out in order; heap is the set still allocated.  *)
(* A pointer is an id or Null.  A STAILQ head is lst, the nodes one     *)
(* reaches from its stqh_first along the next fields (what               *)
(* STAILQ_FOREACH visits), and last, the location its stqh_last points   *)
(* to: the stqh_first of the head inside a vm_conf block, or the next    *)
(* field of a node.  The next field of a node no walk reaches is left    *)
(* out.  String contents are left out: what matters is which object a    *)
(* field points to.                                                        *)
(***************************************************************************)
EXTENDS Naturals, Sequences, FiniteSets

CONSTANTS
    MaxAlloc,    \* allocations available to one section
    MaxParams,   \* parameters vm_conf_set_params applies
    Params       \* the kinds of parameter the section holds

ASSUME ParamsAssumption ==
    /\ MaxAlloc \in Nat /\ MaxParams \in Nat
    /\ Params \subseteq {"string", "fbuf", "disk", "iso", "net"}

Null == 0
Ids == 1 .. MaxAlloc
Ptr == Ids \cup {Null}

\* The char * members free_vm_conf and free_fbuf release, which conf.c's
\* setters and create_vm_conf / create_fbuf assign.
StrFields == {"name", "ncpu", "memory", "comport", "loader", "loadcmd"}
FbFields == {"ipaddr", "vgaconf", "password"}
Lists == {"disks", "isoes", "nets"}
ListOf == [disk |-> "disks", iso |-> "isoes", net |-> "nets"]

\* Where a STAILQ's stqh_last points.
HeadLoc(b) == [at |-> "head", blk |-> b]
NodeLoc(n) == [at |-> "node", node |-> n]
Locs == {HeadLoc(b) : b \in Ids} \cup {NodeLoc(n) : n \in Ids}

Phases == {"create", "realloc", "params", "done"}
Results == {"none", "nocreate", "dropped", "listed"}

VARIABLES
    pc,       \* where load_config_file is for this section
    heap,     \* objects currently allocated
    nid,      \* the next id malloc hands out
    blk,      \* conf: the vm_conf, later the vm_conf_entry
    str,      \* the string members of the vm_conf and of its fbuf
    fb,       \* conf->fbuf
    lst,      \* the nodes reached from each list head, in order
    last,     \* stqh_last of each list head
    cnt,      \* ndisks, nisoes, nnets
    nf,       \* a node's two strings: type, and path or bridge
    nparam,   \* parameters applied so far
    result,   \* what the section became
    wild,     \* a store went to memory that was freed
    dfree     \* free() was called on an object not allocated

cvars == <<pc, heap, nid, blk, str, fb, lst, last, cnt, nf, nparam, result,
           wild, dfree>>

Init ==
    /\ pc = "create"
    /\ heap = {}
    /\ nid = 1
    /\ blk = Null
    /\ str = [f \in StrFields \cup FbFields |-> Null]
    /\ fb = Null
    /\ lst = [l \in Lists |-> << >>]
    /\ last = [l \in Lists |-> HeadLoc(Null)]
    /\ cnt = [l \in Lists |-> 0]
    /\ nf = [n \in Ids |-> [type |-> Null, arg |-> Null]]
    /\ nparam = 0
    /\ result = "none"
    /\ wild = FALSE
    /\ dfree = FALSE

-----------------------------------------------------------------------------
(* The allocator.                                                          *)

\* k allocations in a row; ok[i] says whether the i-th returned a pointer.
Outcomes(k) == [1 .. k -> BOOLEAN]
Got(ok, i) == IF ok[i] THEN nid + i - 1 ELSE Null
Alloced(ok) == {nid + i - 1 : i \in {j \in DOMAIN ok : ok[j]}}
CanAlloc(k) == nid + k - 1 <= MaxAlloc

\* free() of the pointers P, one after another, from the heap H; free(NULL)
\* does nothing.
Freed(H, P) == H \ P
BadFree(H, P) == (P \ {Null}) \ H # {}

\* The nodes of a list, from stqh_first along the next fields.
Nodes(l) == {lst[l][i] : i \in DOMAIN lst[l]}

\* What free_vm_conf(vc) releases: the string members, free_fbuf, every
\* node reached by STAILQ_FOREACH_SAFE with its strings, and vc itself.
ConfObjects ==
    LET ns == UNION {Nodes(l) : l \in Lists}
    IN  {str[f] : f \in StrFields} \cup
        (IF fb = Null THEN {} ELSE {fb} \cup {str[f] : f \in FbFields}) \cup
        ns \cup {nf[n].type : n \in ns} \cup {nf[n].arg : n \in ns} \cup {blk}

free_vm_conf ==
    /\ heap' = Freed(heap, ConfObjects)
    /\ dfree' = (dfree \/ BadFree(heap, ConfObjects))

-----------------------------------------------------------------------------
(* create_vm_conf(name): calloc, create_fbuf (calloc and three strdups),  *)
(* strdup(name).  load_config_file skips the section when it fails.       *)

\* create_fbuf with the outcomes ok[2..5]: all four or none are kept.
FbufOK(ok) == ok[2] /\ ok[3] /\ ok[4] /\ ok[5]
FbufIds == {nid + 1, nid + 2, nid + 3, nid + 4}

create_vm_conf ==
    /\ pc = "create"
    /\ CanAlloc(6)
    /\ nid' = nid + 6
    /\ \E ok \in Outcomes(6) :
         LET kept == Alloced(ok) \ (IF FbufOK(ok) THEN {} ELSE FbufIds)
             fbuf == IF FbufOK(ok) THEN Got(ok, 2) ELSE Null
         IN \/ /\ ok[1] /\ FbufOK(ok) /\ ok[6]
               /\ heap' = heap \cup kept
               /\ blk' = Got(ok, 1)
               /\ fb' = fbuf
               /\ str' = [str EXCEPT !["name"] = Got(ok, 6),
                                     !["ipaddr"] = Got(ok, 3),
                                     !["vgaconf"] = Got(ok, 4),
                                     !["password"] = Got(ok, 5)]
               /\ last' = [l \in Lists |-> HeadLoc(Got(ok, 1))]
               /\ pc' = "realloc"
               /\ UNCHANGED <<result, dfree>>
            \* err: free(ret); free(fbuf); free(name);
            \/ /\ ~(ok[1] /\ FbufOK(ok) /\ ok[6])
               /\ heap' = Freed(heap \cup kept, {Got(ok, 1), fbuf, Got(ok, 6)})
               /\ pc' = "done"
               /\ result' = "nocreate"
               /\ UNCHANGED <<blk, fb, str, last, dfree>>
    /\ UNCHANGED <<lst, cnt, nf, nparam, wild>>

\* Variant of realloc_entry whose failure path frees the old block and
\* then calls free_vm_conf on it as well.
realloc_entry_freetwice ==
    /\ pc = "realloc"
    /\ \/ /\ heap' = Freed(heap \ {blk}, ConfObjects)
          /\ dfree' = (dfree \/ BadFree(heap \ {blk}, ConfObjects))
          /\ pc' = "done"
          /\ result' = "dropped"
          /\ UNCHANGED <<nid, blk>>
       \/ /\ pc' = "params"
          /\ UNCHANGED <<heap, nid, blk, result, dfree>>
    /\ UNCHANGED <<str, fb, lst, last, cnt, nf, nparam, wild>>

\* realloc(conf, sizeof(*conf_ent)): it fails and conf is freed with
\* free_vm_conf, or it grows the block in place, or it moves it: a new
\* block gets a copy of the vm_conf and the old one is freed.  The copy
\* keeps stqh_last, which points into the old block.
realloc_entry ==
    /\ pc = "realloc"
    /\ \/ /\ free_vm_conf
          /\ pc' = "done"
          /\ result' = "dropped"
          /\ UNCHANGED <<nid, blk>>
       \/ /\ pc' = "params"
          /\ UNCHANGED <<heap, nid, blk, result, dfree>>
       \/ /\ CanAlloc(1)
          /\ nid' = nid + 1
          /\ blk' = nid
          /\ heap' = (heap \ {blk}) \cup {nid}
          /\ pc' = "params"
          /\ UNCHANGED <<result, dfree>>
    /\ UNCHANGED <<str, fb, lst, last, cnt, nf, nparam, wild>>

-----------------------------------------------------------------------------
(* vm_conf_set_params: one parameter of the section per step.  A parser  *)
(* that returns -1 is logged and the loop goes on (parser.c 880-889).    *)

Param == /\ pc = "params"
         /\ nparam < MaxParams
         /\ nparam' = nparam + 1

\* Variant of set_string that frees the old string before strdup, and
\* keeps the freed pointer when strdup fails.
set_string_freefirst(f) ==
    /\ CanAlloc(1)
    /\ nid' = nid + 1
    /\ dfree' = (dfree \/ BadFree(heap, {str[f]}))
    /\ \/ /\ heap' = Freed(heap, {str[f]})
          /\ UNCHANGED str
       \/ /\ heap' = Freed(heap \cup {nid}, {str[f]})
          /\ str' = [str EXCEPT ![f] = nid]

\* set_string(&field, value), and set_ncpu's asprintf: the new string is
\* allocated first and the old one freed only once that succeeded.
set_string(f) ==
    /\ CanAlloc(1)
    /\ nid' = nid + 1
    /\ \/ UNCHANGED <<heap, str, dfree>>
       \/ /\ heap' = Freed(heap \cup {nid}, {str[f]})
          /\ dfree' = (dfree \/ BadFree(heap, {str[f]}))
          /\ str' = [str EXCEPT ![f] = nid]

\* The string setters of conf.c, through parse_name, parse_ncpu, ...
set_conf_string ==
    /\ "string" \in Params
    /\ \E f \in StrFields : set_string(f)

\* set_fbuf_ipaddr, set_fbuf_vgaconf, set_fbuf_password on conf->fbuf.
set_fbuf_string ==
    /\ "fbuf" \in Params
    /\ \E f \in FbFields : set_string(f)

\* STAILQ_INSERT_TAIL(&conf->l, t, next): t->next = NULL; *stqh_last =
\* t; stqh_last = &t->next.  The store goes to the head of the current
\* block (t is then all the list), to the next field of a node the walk
\* reaches (the walk then stops at t), or elsewhere: to a node no walk
\* reaches, or, when stqh_last still points into a block realloc freed,
\* to freed memory; the list is then unchanged.
StoreAt(s, at, t) ==
    IF at = HeadLoc(blk) THEN << t >>
    ELSE IF \E i \in DOMAIN s : at = NodeLoc(s[i])
         THEN LET i == CHOOSE i \in DOMAIN s : at = NodeLoc(s[i])
              IN  Append(SubSeq(s, 1, i), t)
         ELSE s

InsertTail(l, t) ==
    LET at == last[l] IN
    /\ lst' = [lst EXCEPT ![l] = StoreAt(@, at, t)]
    /\ last' = [last EXCEPT ![l] = NodeLoc(t)]
    /\ wild' = (wild \/ (IF at.at = "head" THEN at.blk ELSE at.node) \notin heap)

\* add_disk_conf and add_net_conf: malloc the node and strdup both strings;
\* on any failure all three are freed; otherwise the node is appended and
\* the count incremented.
add_conf(kind) ==
    LET l == ListOf[kind] IN
    /\ kind \in Params
    /\ CanAlloc(3)
    /\ nid' = nid + 3
    /\ \E ok \in Outcomes(3) :
         \/ /\ ok[1] /\ ok[2] /\ ok[3]
            /\ heap' = heap \cup Alloced(ok)
            /\ nf' = [nf EXCEPT ![nid] = [type |-> nid + 1, arg |-> nid + 2]]
            /\ InsertTail(l, nid)
            /\ cnt' = [cnt EXCEPT ![l] = @ + 1]
         \/ /\ ~(ok[1] /\ ok[2] /\ ok[3])
            /\ UNCHANGED <<heap, nf, lst, last, cnt, wild>>
    /\ UNCHANGED dfree

\* add_iso_conf tests only the node (conf.c 104): a failed strdup leaves
\* its member NULL and the node is appended all the same.
add_iso_conf ==
    /\ "iso" \in Params
    /\ CanAlloc(3)
    /\ nid' = nid + 3
    /\ \E ok \in Outcomes(3) :
         \/ /\ ok[1]
            /\ heap' = heap \cup Alloced(ok)
            /\ nf' = [nf EXCEPT ![nid] = [type |-> Got(ok, 2), arg |-> Got(ok, 3)]]
            /\ InsertTail("isoes", nid)
            /\ cnt' = [cnt EXCEPT !["isoes"] = @ + 1]
         \/ /\ ~ok[1]
            /\ UNCHANGED <<heap, nf, lst, last, cnt, wild>>
    /\ UNCHANGED dfree

set_params ==
    /\ Param
    /\ \/ /\ set_conf_string \/ set_fbuf_string
          /\ UNCHANGED <<lst, last, cnt, nf, wild>>
       \/ /\ add_conf("disk") \/ add_conf("net") \/ add_iso_conf
          /\ UNCHANGED str
    /\ UNCHANGED <<pc, blk, fb, result>>

\* check_conf can pass only when name, ncpu and memory are set.
check_conf == \A f \in {"name", "ncpu", "memory"} : str[f] # Null

\* finalize_vm_conf and check_conf: check_conf refuses a definition
\* without name, ncpu or memory (and one whose bhyve backend lacks a
\* loader); on failure the conf is freed, otherwise LIST_INSERT_HEAD.
finish ==
    /\ pc = "params"
    /\ pc' = "done"
    /\ \/ /\ check_conf
          /\ result' = "listed"
          /\ UNCHANGED <<heap, dfree>>
       \/ /\ free_vm_conf
          /\ result' = "dropped"
    /\ UNCHANGED <<nid, blk, str, fb, lst, last, cnt, nf, nparam, wild>>

Next ==
    \/ create_vm_conf
    \/ realloc_entry
    \/ set_params
    \/ finish

Spec == Init /\ [][Next]_cvars

-----------------------------------------------------------------------------
(* Properties.                                                             *)

\* Every variable holds a value of its kind.
TypeOK ==
    /\ pc \in Phases /\ result \in Results
    /\ heap \subseteq Ids /\ nid \in 1 .. MaxAlloc + 1
    /\ blk \in Ptr /\ fb \in Ptr
    /\ str \in [StrFields \cup FbFields -> Ptr]
    /\ lst \in [Lists -> Seq(Ids)] /\ cnt \in [Lists -> Nat]
    /\ last \in [Lists -> Locs \cup {HeadLoc(Null)}]
    /\ nf \in [Ids -> [type : Ptr, arg : Ptr]]
    /\ nparam \in 0 .. MaxParams
    /\ wild \in BOOLEAN /\ dfree \in BOOLEAN

\* No object is freed twice: free_vm_conf, set_string and the error paths
\* of create_vm_conf and add_*_conf only free what is allocated.
NoDoubleFree == ~dfree

\* While the section is being built, the conf block and every pointer
\* reachable from it (members, fbuf strings, list nodes and their strings)
\* is an allocated object or NULL: nothing the parser goes on to use, and
\* free_vm_conf goes on to free, is dangling.
NoDangling ==
    pc = "params" => ConfObjects \ {Null} \subseteq heap

\* create_vm_conf is all or nothing: when it returns NULL, every object it
\* allocated has been freed.
CreateAllOrNothing == result = "nocreate" => heap = {}

\* Every node on a list has both its strings: add_*_conf appends only
\* complete nodes, which the VM launcher reads without checking.
NodesComplete ==
    \A l \in Lists : \A n \in Nodes(l) : nf[n].type # Null /\ nf[n].arg # Null

==============================================================================
