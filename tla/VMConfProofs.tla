----------------------------- MODULE VMConfProofs -----------------------------
(***************************************************************************)
(* Proofs that building one VM definition (load_config_file with the      *)
(* allocators of conf.c, as VMConf models it) frees nothing twice and    *)
(* leaves nothing dangling, for every MaxAlloc, MaxParams and Params.    *)
(*                                                                         *)
(* Neither property is inductive as it stands.  free_vm_conf and          *)
(* set_string free a pointer the definition holds, and that is safe only *)
(* because no other member holds the same object: otherwise freeing the  *)
(* old string in set_string would leave the other member dangling.  The  *)
(* invariant therefore says that, while the definition is built, every   *)
(* object it holds is allocated, each string member and the block are    *)
(* held once, and every allocated object has an id below nid, so that    *)
(* what malloc returns next is held by nobody.                           *)
(***************************************************************************)
EXTENDS VMConf, TLAPS

AllFields == StrFields \cup FbFields

\* The list nodes of the definition and their strings.
NodeObjs ==
    LET ns == UNION {Nodes(l) : l \in Lists}
    IN  ns \cup {nf[n].type : n \in ns} \cup {nf[n].arg : n \in ns}

\* A string member holds its object alone: no other member, neither the
\* block nor the fbuf, and no node or node string is that object.
StrAlone ==
    \A f \in AllFields :
        str[f] # Null =>
            str[f] \notin {str[g] : g \in AllFields \ {f}} \cup {blk, fb} \cup NodeObjs

\* The conf block is none of the objects it holds.
BlkAlone == blk \notin {str[f] : f \in AllFields} \cup {fb} \cup NodeObjs

\* The definition being built holds allocated objects, each once.
Owned ==
    /\ blk \in heap /\ fb \in heap
    /\ \A f \in AllFields : str[f] \in heap \cup {Null}
    /\ NodeObjs \subseteq heap \cup {Null}
    /\ StrAlone
    /\ BlkAlone

VInv ==
    /\ TypeOK
    /\ ~dfree
    /\ heap \subseteq 1 .. nid - 1
    /\ pc = "create" => /\ heap = {}
                        /\ str = [f \in AllFields |-> Null]
                        /\ lst = [l \in Lists |-> << >>]
    /\ pc \in {"realloc", "params"} => Owned

-----------------------------------------------------------------------------
(* Lemmas about the list operations.                                       *)

SeqRange(s) == {s[i] : i \in DOMAIN s}

\* STAILQ_INSERT_TAIL leaves a list of ids whose nodes are the old ones
\* and the inserted one.
LEMMA StoreAtRange ==
    ASSUME NEW s \in Seq(Ids), NEW at, NEW t \in Ids
    PROVE  /\ StoreAt(s, at, t) \in Seq(Ids)
           /\ SeqRange(StoreAt(s, at, t)) \subseteq SeqRange(s) \cup {t}
<1>1. CASE at = HeadLoc(blk)
  BY <1>1 DEF StoreAt, SeqRange
<1>2. CASE at # HeadLoc(blk) /\ \E i \in DOMAIN s : at = NodeLoc(s[i])
  <2>1. PICK j \in DOMAIN s : j = CHOOSE i \in DOMAIN s : at = NodeLoc(s[i])
    BY <1>2
  <2>2. StoreAt(s, at, t) = Append(SubSeq(s, 1, j), t)
    BY <1>2, <2>1 DEF StoreAt
  <2>3. j \in 1 .. Len(s)
    BY <2>1
  <2>4. SubSeq(s, 1, j) \in Seq(Ids) /\ Len(SubSeq(s, 1, j)) = j
    BY <2>3
  <2>5. \A k \in 1 .. j : SubSeq(s, 1, j)[k] = s[k]
    BY <2>3
  <2>6. QED
    BY <2>2, <2>3, <2>4, <2>5 DEF SeqRange
<1>3. CASE at # HeadLoc(blk) /\ ~\E i \in DOMAIN s : at = NodeLoc(s[i])
  BY <1>3 DEF StoreAt, SeqRange
<1>4. QED
  BY <1>1, <1>2, <1>3

-----------------------------------------------------------------------------
(* The invariant, step by step.                                           *)

\* The objects the building definition holds, as free_vm_conf collects
\* them, are allocated.
LEMMA OwnedConf ==
    ASSUME TypeOK, Owned
    PROVE  ConfObjects \ {Null} \subseteq heap
<1>1. fb # Null
  BY DEF Owned, TypeOK, Null, Ids
<1>2. UNION {Nodes(l) : l \in Lists} \subseteq NodeObjs
  BY DEF NodeObjs
<1>3. \A n \in UNION {Nodes(l) : l \in Lists} :
          nf[n].type \in NodeObjs /\ nf[n].arg \in NodeObjs
  BY DEF NodeObjs
<1>4. QED
  BY <1>1, <1>2, <1>3 DEF ConfObjects, Owned, AllFields

LEMMA InitVInv == Init => VInv
<1> SUFFICES ASSUME Init PROVE VInv
  OBVIOUS
<1>1. nf \in [Ids -> [type : Ptr, arg : Ptr]]
  BY DEF Init, Ptr, Null
<1>2. lst \in [Lists -> Seq(Ids)] /\ last \in [Lists -> Locs \cup {HeadLoc(Null)}]
  BY DEF Init
<1>3. str \in [StrFields \cup FbFields -> Ptr]
  BY DEF Init, Ptr, Null
<1>4. nid \in 1 .. MaxAlloc + 1 /\ nparam \in 0 .. MaxParams
  BY ParamsAssumption DEF Init
<1>5. blk \in Ptr /\ fb \in Ptr /\ heap \subseteq Ids
  BY DEF Init, Ptr, Null
<1>6. TypeOK
  BY <1>1, <1>2, <1>3, <1>4, <1>5 DEF Init, TypeOK, Phases, Results
<1>7. QED
  BY <1>6 DEF Init, VInv, AllFields

\* A step that only takes ids from the allocator (allocations that all
\* failed, or a strdup whose failure leaves the field as it was) and
\* counts a parameter.
LEMMA QuietStep ==
    ASSUME VInv, NEW k \in 1 .. 6, CanAlloc(k), nid' = nid + k,
           nparam' \in 0 .. MaxParams,
           UNCHANGED <<pc, heap, blk, str, fb, lst, last, cnt, nf, result,
                       wild, dfree>>
    PROVE  VInv'
<1>1. nid \in 1 .. MaxAlloc + 1
  BY DEF VInv, TypeOK
<1>2. TypeOK'
  BY <1>1, ParamsAssumption DEF VInv, TypeOK, CanAlloc
<1>3. (heap \subseteq 1 .. nid - 1)'
  BY <1>1 DEF VInv
<1>4. (pc \in {"realloc", "params"} => Owned)'
  BY DEF VInv, Owned, StrAlone, BlkAlone, NodeObjs, Nodes
<1>5. QED
  BY <1>2, <1>3, <1>4 DEF VInv

\* finalize_vm_conf: the definition is kept, or freed by free_vm_conf,
\* which frees only allocated objects.
LEMMA FinishStep ==
    ASSUME VInv, finish
    PROVE  VInv'
<1>1. Owned /\ TypeOK
  BY DEF VInv, finish
<1>2. ~BadFree(heap, ConfObjects)
  BY <1>1, OwnedConf DEF BadFree
<1>3. TypeOK'
  BY DEF VInv, TypeOK, finish, free_vm_conf, Freed, Phases, Results
<1>4. heap' \subseteq heap /\ ~dfree'
  <2>1. CASE check_conf /\ result' = "listed" /\ UNCHANGED <<heap, dfree>>
    BY <2>1 DEF VInv
  <2>2. CASE free_vm_conf /\ result' = "dropped"
    BY <1>2, <2>2 DEF VInv, free_vm_conf, Freed
  <2>3. QED
    BY <2>1, <2>2 DEF finish
<1>6. pc' = "done" /\ nid' = nid
  BY DEF finish
<1>5. QED
  BY <1>3, <1>4, <1>6 DEF VInv

\* create_vm_conf: on success a fresh block, fbuf and strings, each held
\* once; on failure whatever it allocated, apart from the leak VMConf
\* records, is freed and the section is skipped.
LEMMA CreateStep ==
    ASSUME VInv, create_vm_conf
    PROVE  VInv'
<1>1. /\ pc = "create" /\ heap = {} /\ str = [f \in AllFields |-> Null]
      /\ lst = [l \in Lists |-> << >>]
      /\ nid \in Nat /\ nid >= 1 /\ nid + 5 <= MaxAlloc /\ nid' = nid + 6
  BY DEF VInv, TypeOK, create_vm_conf, CanAlloc
<1>2. PICK ok \in Outcomes(6) :
         LET kept == Alloced(ok) \ (IF FbufOK(ok) THEN {} ELSE FbufIds)
             fbuf == IF FbufOK(ok) THEN Got(ok, 2) ELSE Null
         IN \/ /\ ok[1] /\ FbufOK(ok) /\ ok[6]
               /\ heap' = heap \cup kept
               /\ blk' = Got(ok, 1)
               /\ fb' = fbuf
               /\ str' = [str EXCEPT !["name"] = Got(ok, 6),
                                     !["ipaddr"] = Got(ok, 3),
                                     !["vgaconf"] = Got(ok, 4),
                                     !["password"] = Got(ok, 5)]
               /\ last' = [l \in Lists |-> HeadLoc(Got(ok, 1))]
               /\ pc' = "realloc"
               /\ UNCHANGED <<result, dfree>>
            \/ /\ ~(ok[1] /\ FbufOK(ok) /\ ok[6])
               /\ heap' = Freed(heap \cup kept, {Got(ok, 1), fbuf, Got(ok, 6)})
               /\ pc' = "done"
               /\ result' = "nocreate"
               /\ UNCHANGED <<blk, fb, str, last, dfree>>
  BY DEF create_vm_conf
<1>0. nid \in Nat /\ nid >= 1 /\ nid + 5 <= MaxAlloc /\ nid' = nid + 6
  BY <1>1
<1>3. UNCHANGED <<lst, cnt, nf, nparam, wild>>
  BY DEF create_vm_conf
<1>4. Alloced(ok) \subseteq nid .. nid + 5
  BY <1>1 DEF Alloced, Outcomes
<1>5. CASE ok[1] /\ FbufOK(ok) /\ ok[6]
  <2>0. /\ heap' = heap \cup Alloced(ok)
        /\ blk' = Got(ok, 1) /\ fb' = Got(ok, 2)
        /\ str' = [str EXCEPT !["name"] = Got(ok, 6),
                              !["ipaddr"] = Got(ok, 3),
                              !["vgaconf"] = Got(ok, 4),
                              !["password"] = Got(ok, 5)]
        /\ last' = [l \in Lists |-> HeadLoc(Got(ok, 1))]
        /\ pc' = "realloc" /\ dfree' = dfree /\ result' = result
    BY <1>2, <1>5
  <2>9. /\ Got(ok, 1) = nid /\ Got(ok, 2) = nid + 1 /\ Got(ok, 3) = nid + 2
        /\ Got(ok, 4) = nid + 3 /\ Got(ok, 5) = nid + 4 /\ Got(ok, 6) = nid + 5
    BY <1>0, <1>5 DEF FbufOK, Got
  <2>1. /\ heap' = nid .. nid + 5 /\ blk' = nid /\ fb' = nid + 1
        /\ pc' = "realloc" /\ ~dfree'
        /\ last' = [l \in Lists |-> HeadLoc(nid)]
    <3>1. \A i \in 1 .. 6 : ok[i]
      BY <1>5 DEF FbufOK
    <3>2. Alloced(ok) = nid .. nid + 5
      BY <1>1, <3>1 DEF Alloced, Outcomes
    <3>3. \A i \in 1 .. 6 : Got(ok, i) = nid + i - 1
      BY <3>1 DEF Got
    <3>4. QED
      BY <1>1, <2>0, <3>2, <3>3 DEF VInv
  <2>2. /\ str' = [str EXCEPT !["name"] = nid + 5, !["ipaddr"] = nid + 2,
                              !["vgaconf"] = nid + 3, !["password"] = nid + 4]
        /\ str = [f \in AllFields |-> Null]
    BY <1>1, <2>0, <2>9
  <2>7. /\ str' \in [AllFields -> Ptr]
        /\ str'["name"] = nid + 5 /\ str'["ipaddr"] = nid + 2
        /\ str'["vgaconf"] = nid + 3 /\ str'["password"] = nid + 4
        /\ \A f \in AllFields \ {"name", "ipaddr", "vgaconf", "password"} :
              str'[f] = Null
    <3>1. str' \in [AllFields -> Ptr]
      <4>1. str \in [AllFields -> Ptr]
        BY <2>2 DEF Ptr, Null
      <4>2. {nid + 2, nid + 3, nid + 4, nid + 5} \subseteq Ptr
        BY <1>0, ParamsAssumption DEF Ptr, Ids
      <4>3. QED
        BY <2>2, <4>1, <4>2 DEF AllFields, StrFields, FbFields
    <3>2. str'["name"] = nid + 5 /\ str'["ipaddr"] = nid + 2
          /\ str'["vgaconf"] = nid + 3 /\ str'["password"] = nid + 4
      BY <2>2 DEF AllFields, StrFields, FbFields
    <3>3. \A f \in AllFields \ {"name", "ipaddr", "vgaconf", "password"} :
              str'[f] = Null
      BY <2>2 DEF AllFields, StrFields, FbFields
    <3>4. QED
      BY <3>1, <3>2, <3>3
  <2>3. NodeObjs' = {}
    BY <1>1, <1>3 DEF NodeObjs, Nodes
  <2>4. TypeOK'
    <3>1. str' \in [StrFields \cup FbFields -> Ptr]
      BY <2>7 DEF AllFields
    <3>2. last' \in [Lists -> Locs \cup {HeadLoc(Null)}]
      <4>1. HeadLoc(nid) \in Locs
        <5>1. nid \in Ids
          BY <1>0, ParamsAssumption DEF Ids
        <5>2. QED
          BY <5>1, Zenon DEF Locs
      <4>2. QED
        BY <2>1, <4>1
    <3>3. heap' \subseteq Ids /\ nid' \in 1 .. MaxAlloc + 1
          /\ blk' \in Ptr /\ fb' \in Ptr
      <4>1. nid \in Nat /\ nid >= 1 /\ nid + 5 <= MaxAlloc /\ nid' = nid + 6
        BY <1>0
      <4>2. heap' = nid .. nid + 5 /\ blk' = nid /\ fb' = nid + 1
        BY <2>1
      <4>3. QED
        BY <4>1, <4>2, ParamsAssumption DEF Ids, Ptr
    <3>4. QED
      BY <1>3, <2>0, <2>1, <3>1, <3>2, <3>3 DEF VInv, TypeOK, Phases
  <2>5. Owned'
    <3>1. blk' \in heap' /\ fb' \in heap'
      BY <1>0, <2>1
    <3>2. \A f \in AllFields : str'[f] \in heap' \cup {Null}
      BY <1>0, <2>1, <2>7
    <3>3. StrAlone'
      BY <1>0, <2>1, <2>3, <2>7 DEF StrAlone, AllFields, StrFields, FbFields,
                                    Null
    <3>4. BlkAlone'
      BY <1>0, <2>1, <2>3, <2>7 DEF BlkAlone, AllFields, StrFields, FbFields,
                                    Null
    <3>5. QED
      BY <2>3, <3>1, <3>2, <3>3, <3>4 DEF Owned
  <2>6. QED
    BY <1>1, <2>1, <2>4, <2>5 DEF VInv
<1>6. CASE ~(ok[1] /\ FbufOK(ok) /\ ok[6])
  <2>0. /\ heap' \subseteq heap \cup Alloced(ok)
        /\ pc' = "done" /\ result' = "nocreate"
        /\ UNCHANGED <<blk, fb, str, last, dfree>>
    BY <1>2, <1>6 DEF Freed
  <2>1. heap' \subseteq nid .. nid + 5 /\ pc' = "done" /\ ~dfree'
    BY <1>1, <1>4, <2>0 DEF VInv
  <2>2. heap' \subseteq Ids /\ nid' \in 1 .. MaxAlloc + 1
    BY <1>0, <2>1, ParamsAssumption DEF Ids
  <2>4. TypeOK'
    BY <1>3, <2>0, <2>2 DEF VInv, TypeOK, Phases, Results
  <2>3. QED
    BY <1>1, <2>1, <2>4 DEF VInv
<1>7. QED
  BY <1>5, <1>6

\* The realloc of load_config_file: a failure frees the definition with
\* free_vm_conf; a move gives the definition a fresh block and frees the
\* old one, which no member of the definition held.
LEMMA ReallocStep ==
    ASSUME VInv, realloc_entry
    PROVE  VInv'
<1>1. TypeOK /\ Owned /\ ~dfree /\ heap \subseteq 1 .. nid - 1
  BY DEF VInv, realloc_entry
<1>2. UNCHANGED <<str, fb, lst, last, cnt, nf, nparam, wild>>
  BY DEF realloc_entry
<1>3. CASE free_vm_conf /\ pc' = "done" /\ result' = "dropped"
           /\ UNCHANGED <<nid, blk>>
  <2>1. ~BadFree(heap, ConfObjects)
    BY <1>1, OwnedConf DEF BadFree
  <2>2. heap' \subseteq heap /\ ~dfree'
    BY <1>1, <1>3, <2>1 DEF free_vm_conf, Freed
  <2>3. TypeOK'
    BY <1>2, <1>3 DEF VInv, TypeOK, free_vm_conf, Freed, Phases, Results
  <2>4. QED
    BY <1>1, <1>3, <2>2, <2>3 DEF VInv
<1>4. CASE pc' = "params" /\ UNCHANGED <<heap, nid, blk, result, dfree>>
  <2>1. TypeOK'
    BY <1>1, <1>2, <1>4 DEF TypeOK, Phases
  <2>2. Owned'
    BY <1>1, <1>2, <1>4 DEF Owned, StrAlone, BlkAlone, NodeObjs, Nodes
  <2>3. QED
    BY <1>1, <1>4, <2>1, <2>2 DEF VInv
<1>5. CASE /\ CanAlloc(1) /\ nid' = nid + 1 /\ blk' = nid
           /\ heap' = (heap \ {blk}) \cup {nid}
           /\ pc' = "params" /\ UNCHANGED <<result, dfree>>
  <2>0. nid \in 1 .. MaxAlloc /\ nid \notin heap /\ nid # Null
    BY <1>1, <1>5, ParamsAssumption DEF TypeOK, CanAlloc, Null
  <2>1. NodeObjs' = NodeObjs
    BY <1>2 DEF NodeObjs, Nodes
  <2>2. TypeOK'
    <3>1. heap' \subseteq Ids /\ nid' \in 1 .. MaxAlloc + 1 /\ blk' \in Ptr
      BY <1>1, <1>5, <2>0, ParamsAssumption DEF TypeOK, Ids, Ptr
    <3>2. QED
      BY <1>1, <1>2, <1>5, <3>1 DEF TypeOK, Phases
  <2>3. heap' \subseteq 1 .. nid' - 1
    <3>1. nid \in Nat /\ nid >= 1
      BY <2>0, ParamsAssumption
    <3>2. heap \subseteq 1 .. nid - 1
      BY <1>1
    <3>3. heap' = (heap \ {blk}) \cup {nid} /\ nid' = nid + 1
      BY <1>5
    <3>4. 1 .. nid - 1 \subseteq 1 .. nid' - 1 /\ nid \in 1 .. nid' - 1
      BY <3>1, <3>3
    <3>5. QED
      BY <3>2, <3>3, <3>4
  <2>4. Owned'
    <3>1. blk' \in heap' /\ fb' \in heap'
      BY <1>1, <1>2, <1>5 DEF Owned, BlkAlone
    <3>2. \A f \in AllFields : str'[f] \in heap' \cup {Null}
      BY <1>1, <1>2, <1>5 DEF Owned, BlkAlone
    <3>3. NodeObjs' \subseteq heap' \cup {Null}
      BY <1>1, <1>5, <2>1 DEF Owned, BlkAlone
    <3>4. StrAlone'
      <4>1. \A f \in AllFields : str[f] # nid
        BY <1>1, <2>0 DEF Owned
      <4>2. QED
        BY <1>1, <1>2, <1>5, <2>1, <4>1 DEF Owned, StrAlone
    <3>5. BlkAlone'
      <4>1. nid \notin {str[f] : f \in AllFields} \cup {fb} \cup NodeObjs
        BY <1>1, <2>0 DEF Owned
      <4>2. QED
        BY <1>2, <1>5, <2>1, <4>1 DEF BlkAlone
    <3>6. QED
      BY <3>1, <3>2, <3>3, <3>4, <3>5 DEF Owned
  <2>5. QED
    BY <1>1, <1>5, <2>2, <2>3, <2>4 DEF VInv
<1>6. QED
  BY <1>3, <1>4, <1>5 DEF realloc_entry

\* set_string: the new string is fresh, and the old one it frees is held
\* by this member alone, so no other member is left dangling.
LEMMA SetStringStep ==
    ASSUME VInv, pc = "params", NEW f \in AllFields, set_string(f),
           nparam' \in 0 .. MaxParams,
           UNCHANGED <<pc, blk, fb, lst, last, cnt, nf, result, wild>>
    PROVE  VInv'
<1>1. TypeOK /\ Owned /\ ~dfree /\ heap \subseteq 1 .. nid - 1
  BY DEF VInv
<1>2. CASE UNCHANGED <<heap, str, dfree>>
  BY <1>2, QuietStep DEF set_string
<1>3. CASE /\ heap' = Freed(heap \cup {nid}, {str[f]})
           /\ dfree' = (dfree \/ BadFree(heap, {str[f]}))
           /\ str' = [str EXCEPT ![f] = nid]
  <2> DEFINE old == str[f]
             held == {str[g] : g \in AllFields} \cup {blk, fb} \cup NodeObjs
  <2>0. /\ nid \in Nat /\ nid >= 1 /\ nid <= MaxAlloc /\ nid' = nid + 1
        /\ nid \notin heap /\ nid # Null
    BY <1>1, ParamsAssumption DEF set_string, CanAlloc, TypeOK, Null
  <2>1. held \subseteq heap \cup {Null} /\ old \in heap \cup {Null}
    BY <1>1 DEF Owned
  <2>2. nid \notin held /\ nid # old
    BY <2>0, <2>1
  <2>3. old # Null => old \notin {str[g] : g \in AllFields \ {f}} \cup {blk, fb} \cup NodeObjs
    BY <1>1 DEF Owned, StrAlone
  <2>4. heap' = (heap \cup {nid}) \ {old} /\ ~dfree'
    BY <1>1, <1>3, <2>1 DEF Freed, BadFree
  <2>5. NodeObjs' = NodeObjs
    BY DEF NodeObjs, Nodes
  <2>6. str' \in [AllFields -> Ptr]
    BY <1>1, <1>3, <2>0 DEF TypeOK, AllFields, Ptr, Ids
  <2>7. TypeOK'
    <3>1. heap' \subseteq Ids /\ nid' \in 1 .. MaxAlloc + 1
      <4>1. heap \subseteq Ids
        BY <1>1 DEF TypeOK
      <4>2. nid \in Ids
        BY <2>0, ParamsAssumption DEF Ids
      <4>3. heap' \subseteq Ids
        BY <2>4, <4>1, <4>2
      <4>4. nid' \in 1 .. MaxAlloc + 1
        BY <2>0, ParamsAssumption
      <4>5. QED
        BY <4>3, <4>4
    <3>2. QED
      BY <1>1, <1>3, <2>4, <2>6, <3>1 DEF TypeOK, AllFields
  <2>8. heap' \subseteq 1 .. nid' - 1
    <3>1. 1 .. nid - 1 \subseteq 1 .. nid' - 1 /\ nid \in 1 .. nid' - 1
      BY <2>0
    <3>2. QED
      BY <1>1, <2>4, <3>1
  <2>9. Owned'
    <3>1. blk' \in heap' /\ fb' \in heap'
      BY <1>1, <2>3, <2>4 DEF Owned, TypeOK, Ptr, Ids, Null
    <3>2. \A g \in AllFields : str'[g] \in heap' \cup {Null}
      <4>1. SUFFICES ASSUME NEW g \in AllFields PROVE str'[g] \in heap' \cup {Null}
        OBVIOUS
      <4>2. CASE g = f
        BY <1>1, <1>3, <2>2, <2>4, <4>2 DEF TypeOK, AllFields
      <4>3. CASE g # f
        <5>1. str'[g] = str[g] /\ str[g] \in heap \cup {Null}
          BY <1>1, <1>3, <4>3 DEF TypeOK, AllFields, Owned
        <5>2. str[g] # Null => str[g] # old
          BY <2>3, <4>3
        <5>3. QED
          BY <2>4, <5>1, <5>2
      <4>4. QED
        BY <4>2, <4>3
    <3>3. NodeObjs' \subseteq heap' \cup {Null}
      BY <1>1, <2>3, <2>4, <2>5 DEF Owned
    <3>4. StrAlone'
      <4>1. SUFFICES ASSUME NEW g \in AllFields, str'[g] # Null
                     PROVE  str'[g] \notin {str'[h] : h \in AllFields \ {g}}
                                          \cup {blk', fb'} \cup NodeObjs'
        BY DEF StrAlone
      <4>2. CASE g = f
        <5>1. \A h \in AllFields \ {g} : str'[h] = str[h]
          BY <1>3, <4>2
        <5>2. str'[g] = nid
          BY <1>1, <1>3, <4>2 DEF TypeOK, AllFields
        <5>3. {str'[h] : h \in AllFields \ {g}} \subseteq {str[h] : h \in AllFields}
          BY <5>1
        <5>4. QED
          BY <2>2, <2>5, <5>2, <5>3 DEF held
      <4>3. CASE g # f
        <5>1. str'[g] = str[g] /\ str[g] # Null /\ str[g] # nid
          BY <1>3, <2>1, <2>2, <4>1, <4>3
        <5>2. str[g] \notin {str[h] : h \in AllFields \ {g}} \cup {blk, fb} \cup NodeObjs
          BY <1>1, <5>1 DEF Owned, StrAlone
        <5>3. {str'[h] : h \in AllFields \ {g}}
                \subseteq {str[h] : h \in AllFields \ {g}} \cup {nid}
          BY <1>3
        <5>4. QED
          BY <2>5, <5>1, <5>2, <5>3
      <4>4. QED
        BY <4>2, <4>3
    <3>5. BlkAlone'
      <4>1. {str'[g] : g \in AllFields} \subseteq {str[g] : g \in AllFields} \cup {nid}
        BY <1>3
      <4>2. blk \notin {str[g] : g \in AllFields} \cup {fb} \cup NodeObjs
        BY <1>1 DEF Owned, BlkAlone
      <4>3. blk # nid
        BY <2>0, <1>1 DEF Owned
      <4>4. QED
        BY <2>5, <4>1, <4>2, <4>3 DEF BlkAlone
    <3>6. QED
      BY <3>1, <3>2, <3>3, <3>4, <3>5 DEF Owned
  <2>10. QED
    BY <2>4, <2>7, <2>8, <2>9 DEF VInv
<1>4. QED
  BY <1>2, <1>3 DEF set_string

\* add_*_conf that appends: the node and its strings are fresh objects
\* A, and STAILQ_INSERT_TAIL puts on a list at most the new node.
LEMMA AddStep ==
    ASSUME VInv, pc = "params", CanAlloc(3), nid' = nid + 3,
           NEW l \in Lists, NEW A, A \subseteq {nid, nid + 1, nid + 2}, nid \in A,
           heap' = heap \cup A,
           NEW r \in [type : A \cup {Null}, arg : A \cup {Null}],
           nf' = [nf EXCEPT ![nid] = r],
           InsertTail(l, nid), cnt' = [cnt EXCEPT ![l] = @ + 1],
           nparam' \in 0 .. MaxParams,
           UNCHANGED <<pc, blk, str, fb, result, dfree>>
    PROVE  VInv'
<1>1. TypeOK /\ Owned /\ ~dfree /\ heap \subseteq 1 .. nid - 1
  BY DEF VInv
<1>2. nid \in Nat /\ nid >= 1 /\ nid + 2 <= MaxAlloc /\ MaxAlloc \in Nat
  BY <1>1, ParamsAssumption DEF TypeOK, CanAlloc
<1>3. A \subseteq Ids /\ \A a \in A : a \notin heap /\ a # Null
  BY <1>1, <1>2 DEF Ids, Null
<1>4. \A m \in Lists : /\ lst'[m] \in Seq(Ids)
                       /\ SeqRange(lst'[m]) \subseteq SeqRange(lst[m]) \cup {nid}
  <2>1. lst' = [lst EXCEPT ![l] = StoreAt(lst[l], last[l], nid)]
    BY DEF InsertTail
  <2>2. nid \in Ids /\ lst[l] \in Seq(Ids)
    BY <1>1, <1>3 DEF TypeOK
  <2>3. /\ StoreAt(lst[l], last[l], nid) \in Seq(Ids)
        /\ SeqRange(StoreAt(lst[l], last[l], nid)) \subseteq SeqRange(lst[l]) \cup {nid}
    BY <2>2, StoreAtRange
  <2>4. SUFFICES ASSUME NEW m \in Lists
                 PROVE  /\ lst'[m] \in Seq(Ids)
                        /\ SeqRange(lst'[m]) \subseteq SeqRange(lst[m]) \cup {nid}
    OBVIOUS
  <2>5. CASE m = l
    BY <1>1, <2>1, <2>3, <2>5 DEF TypeOK
  <2>6. CASE m # l
    BY <1>1, <2>1, <2>6 DEF TypeOK
  <2>7. QED
    BY <2>5, <2>6
<1>5. NodeObjs' \subseteq NodeObjs \cup A \cup {Null}
  <2>1. SUFFICES ASSUME NEW m \in Lists, NEW n \in Nodes(m)'
                 PROVE  {n, nf'[n].type, nf'[n].arg} \subseteq NodeObjs \cup A \cup {Null}
    BY DEF NodeObjs
  <2>2. n \in Nodes(m) \cup {nid}
    BY <1>4 DEF Nodes, SeqRange
  <2>3. CASE n = nid
    BY <1>1, <1>3, <2>3 DEF TypeOK
  <2>4. CASE n \in Nodes(m)
    <3>1. n \in Ids /\ n # nid
      <4>1. n \in Ids
        BY <1>1, <2>4 DEF TypeOK, Nodes
      <4>2. n \in heap \cup {Null}
        BY <1>1, <2>4 DEF Owned, NodeObjs
      <4>3. QED
        BY <1>3, <4>1, <4>2
    <3>2. nf'[n] = nf[n]
      BY <1>1, <3>1 DEF TypeOK
    <3>3. QED
      BY <2>4, <3>2 DEF NodeObjs
  <2>5. QED
    BY <2>2, <2>3, <2>4
<1>6. TypeOK'
  <3>1. nf' \in [Ids -> [type : Ptr, arg : Ptr]]
    BY <1>1, <1>3 DEF TypeOK, Ptr
  <3>2. last' \in [Lists -> Locs \cup {HeadLoc(Null)}]
    <4>1. NodeLoc(nid) \in Locs
      <5>1. nid \in Ids
        BY <1>2 DEF Ids
      <5>2. QED
        BY <5>1, Zenon DEF Locs
    <4>2. QED
      BY <1>1, <4>1 DEF TypeOK, InsertTail
  <3>3. lst' \in [Lists -> Seq(Ids)]
    BY <1>1, <1>4 DEF TypeOK, InsertTail
  <3>4. cnt' \in [Lists -> Nat] /\ wild' \in BOOLEAN
    BY <1>1 DEF TypeOK, InsertTail
  <3>5. heap' \subseteq Ids /\ nid' \in 1 .. MaxAlloc + 1
    BY <1>1, <1>2, <1>3 DEF TypeOK
  <3>6. QED
    BY <1>1, <3>1, <3>2, <3>3, <3>4, <3>5 DEF TypeOK
<1>7. heap' \subseteq 1 .. nid' - 1
  <2>1. 1 .. nid - 1 \subseteq 1 .. nid' - 1 /\ {nid, nid + 1, nid + 2} \subseteq 1 .. nid' - 1
    BY <1>2
  <2>2. QED
    BY <1>1, <2>1
<1>8. Owned'
  <2>1. blk' \in heap' /\ fb' \in heap' /\ \A f \in AllFields : str'[f] \in heap' \cup {Null}
    BY <1>1 DEF Owned
  <2>2. NodeObjs' \subseteq heap' \cup {Null}
    BY <1>1, <1>5 DEF Owned
  <2>3. StrAlone'
    <3>1. \A f \in AllFields : str[f] # Null => str[f] \notin A
      BY <1>1, <1>3 DEF Owned
    <3>2. QED
      BY <1>1, <1>5, <3>1, ZenonT(60) DEF Owned, StrAlone
  <2>4. BlkAlone'
    <3>1. blk \notin A
      BY <1>1, <1>3 DEF Owned
    <3>2. blk # Null
      BY <1>1 DEF Owned, TypeOK, Ids, Null
    <3>3. blk \notin {str[f] : f \in AllFields} \cup {fb} \cup NodeObjs
      BY <1>1 DEF Owned, BlkAlone
    <3>4. QED
      BY <1>5, <3>1, <3>2, <3>3 DEF BlkAlone
  <2>5. QED
    BY <2>1, <2>2, <2>3, <2>4 DEF Owned
<1>9. QED
  BY <1>6, <1>7, <1>8 DEF VInv

\* add_disk_conf and add_net_conf.
LEMMA AddConfStep ==
    ASSUME VInv, pc = "params", NEW kind \in {"disk", "net"}, add_conf(kind),
           nparam' \in 0 .. MaxParams, UNCHANGED <<pc, blk, str, fb, result>>
    PROVE  VInv'
<1>1. nid \in Nat
  BY DEF VInv, TypeOK
<1>2. PICK ok \in Outcomes(3) :
         \/ /\ ok[1] /\ ok[2] /\ ok[3]
            /\ heap' = heap \cup Alloced(ok)
            /\ nf' = [nf EXCEPT ![nid] = [type |-> nid + 1, arg |-> nid + 2]]
            /\ InsertTail(ListOf[kind], nid)
            /\ cnt' = [cnt EXCEPT ![ListOf[kind]] = @ + 1]
         \/ /\ ~(ok[1] /\ ok[2] /\ ok[3])
            /\ UNCHANGED <<heap, nf, lst, last, cnt, wild>>
  BY DEF add_conf
<1>3. CASE ok[1] /\ ok[2] /\ ok[3]
  <2>1. Alloced(ok) = {nid, nid + 1, nid + 2}
    BY <1>1, <1>3 DEF Alloced, Outcomes
  <2>2. ListOf[kind] \in Lists
    BY DEF ListOf, Lists
  <2>3. /\ CanAlloc(3) /\ nid' = nid + 3 /\ UNCHANGED dfree
        /\ heap' = heap \cup Alloced(ok)
        /\ nf' = [nf EXCEPT ![nid] = [type |-> nid + 1, arg |-> nid + 2]]
        /\ InsertTail(ListOf[kind], nid)
        /\ cnt' = [cnt EXCEPT ![ListOf[kind]] = @ + 1]
    BY <1>2, <1>3 DEF add_conf
  <2>4. [type |-> nid + 1, arg |-> nid + 2]
          \in [type : Alloced(ok) \cup {Null}, arg : Alloced(ok) \cup {Null}]
    BY <2>1
  <2>5. Alloced(ok) \subseteq {nid, nid + 1, nid + 2} /\ nid \in Alloced(ok)
    BY <2>1
  <2>6. QED
    BY <2>2, <2>3, <2>4, <2>5, AddStep
<1>4. CASE ~(ok[1] /\ ok[2] /\ ok[3])
  BY <1>2, <1>4, QuietStep DEF add_conf
<1>5. QED
  BY <1>3, <1>4

\* add_iso_conf: a string whose strdup failed stays NULL in the node.
LEMMA AddIsoStep ==
    ASSUME VInv, pc = "params", add_iso_conf,
           nparam' \in 0 .. MaxParams, UNCHANGED <<pc, blk, str, fb, result>>
    PROVE  VInv'
<1>1. nid \in Nat
  BY DEF VInv, TypeOK
<1>2. PICK ok \in Outcomes(3) :
         \/ /\ ok[1]
            /\ heap' = heap \cup Alloced(ok)
            /\ nf' = [nf EXCEPT ![nid] = [type |-> Got(ok, 2), arg |-> Got(ok, 3)]]
            /\ InsertTail("isoes", nid)
            /\ cnt' = [cnt EXCEPT !["isoes"] = @ + 1]
         \/ /\ ~ok[1]
            /\ UNCHANGED <<heap, nf, lst, last, cnt, wild>>
  BY DEF add_iso_conf
<1>3. CASE ok[1]
  <2>1. /\ Alloced(ok) \subseteq {nid, nid + 1, nid + 2} /\ nid \in Alloced(ok)
        /\ Got(ok, 2) \in Alloced(ok) \cup {Null}
        /\ Got(ok, 3) \in Alloced(ok) \cup {Null}
    BY <1>1, <1>3 DEF Alloced, Outcomes, Got
  <2>2. /\ CanAlloc(3) /\ nid' = nid + 3 /\ UNCHANGED dfree
        /\ heap' = heap \cup Alloced(ok)
        /\ nf' = [nf EXCEPT ![nid] = [type |-> Got(ok, 2), arg |-> Got(ok, 3)]]
        /\ InsertTail("isoes", nid)
        /\ cnt' = [cnt EXCEPT !["isoes"] = @ + 1]
    BY <1>2, <1>3 DEF add_iso_conf
  <2>3. [type |-> Got(ok, 2), arg |-> Got(ok, 3)]
          \in [type : Alloced(ok) \cup {Null}, arg : Alloced(ok) \cup {Null}]
    BY <2>1
  <2>4. "isoes" \in Lists
    BY DEF Lists
  <2>5. QED
    BY <2>1, <2>2, <2>3, <2>4, AddStep
<1>4. CASE ~ok[1]
  BY <1>2, <1>4, QuietStep DEF add_iso_conf
<1>5. QED
  BY <1>3, <1>4

\* One parameter of vm_conf_set_params.
LEMMA ParamsStep ==
    ASSUME VInv, set_params
    PROVE  VInv'
<1>1. pc = "params" /\ nparam' \in 0 .. MaxParams
      /\ UNCHANGED <<pc, blk, fb, result>>
  BY ParamsAssumption DEF VInv, TypeOK, set_params, Param
<1>2. CASE /\ set_conf_string \/ set_fbuf_string
           /\ UNCHANGED <<lst, last, cnt, nf, wild>>
  <2>1. PICK f \in AllFields : set_string(f)
    BY <1>2 DEF set_conf_string, set_fbuf_string, AllFields
  <2>2. QED
    BY <1>1, <1>2, <2>1, SetStringStep
<1>3. CASE /\ add_conf("disk") \/ add_conf("net") \/ add_iso_conf
           /\ UNCHANGED str
  <2>1. CASE add_conf("disk")
    BY <1>1, <1>3, <2>1, AddConfStep
  <2>2. CASE add_conf("net")
    BY <1>1, <1>3, <2>2, AddConfStep
  <2>3. CASE add_iso_conf
    BY <1>1, <1>3, <2>3, AddIsoStep
  <2>4. QED
    BY <1>3, <2>1, <2>2, <2>3
<1>4. QED
  BY <1>2, <1>3 DEF set_params

LEMMA NextVInv == VInv /\ [Next]_cvars => VInv'
<1> SUFFICES ASSUME VInv, [Next]_cvars PROVE VInv'
  OBVIOUS
<1>1. CASE create_vm_conf
  BY <1>1, CreateStep
<1>2. CASE realloc_entry
  BY <1>2, ReallocStep
<1>3. CASE set_params
  BY <1>3, ParamsStep
<1>4. CASE finish
  BY <1>4, FinishStep
<1>5. CASE UNCHANGED cvars
  BY <1>5 DEF VInv, TypeOK, Owned, StrAlone, BlkAlone, NodeObjs, Nodes, cvars
<1>6. QED
  BY <1>1, <1>2, <1>3, <1>4, <1>5 DEF Next

-----------------------------------------------------------------------------
(* The theorems.                                                           *)

\* load_config_file never calls free() on an object that is not
\* allocated: free_vm_conf on its error paths, set_string and the error
\* paths of create_vm_conf and add_*_conf, for every number of
\* allocations and parameters.
THEOREM DefinitionNoDoubleFree == Spec => []NoDoubleFree
<1>1. VInv => NoDoubleFree
  BY DEF VInv, NoDoubleFree
<1>2. QED
  BY <1>1, InitVInv, NextVInv, PTL DEF Spec

\* While vm_conf_set_params runs, every object the definition holds, and
\* free_vm_conf would free, is allocated: the realloc that moves the
\* block and set_string that replaces a string leave nothing dangling.
THEOREM DefinitionNoDangling == Spec => []NoDangling
<1>1. VInv => NoDangling
  BY OwnedConf DEF VInv, NoDangling
<1>2. QED
  BY <1>1, InitVInv, NextVInv, PTL DEF Spec

==============================================================================
