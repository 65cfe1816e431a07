----------------------------- MODULE Definition -----------------------------
(***************************************************************************)
(* What the engine does with a finished continuation tree before it runs   *)
(* it: the duplicate check, the node listing, the serialized form and its  *)
(* hash, and the way back from it through a task registry.                 *)
(*                                                                         *)
(* A callable is its name.  KeyFns gives the key a key function returns,   *)
(* Bodies how many times a loop body says Again.                           *)
(***************************************************************************)
EXTENDS Flow

KeyFns == [kl |-> "l", kr |-> "r"]
Bodies == [w0 |-> 0, w1 |-> 1]

key_fn_id(branch_id) == branch_id \o "::key_fn"
loop_node_id(counter) == "loop_" \o ToString(counter)
derive_fork_id(ids) == FoldLeft(LAMBDA a, b : a \o "||" \o b, Head(ids), Tail(ids))

(* A task with its callable and its metadata. *)
TaskOf(id, fn, n) == [Task(id, <<>>) EXCEPT !.fn = fn, !.n = n]

RECURSIVE append_to_chain(_, _)
append_to_chain(n, m) ==
  [n EXCEPT !.next = IF @ = <<>> THEN <<m>> ELSE <<append_to_chain(@[1], m)>>]

(* ---- traversals ------------------------------------------------------- *)

(* find_duplicate_id walks the nodes in the order of task_ids; key function *)
(* ids are not looked at.                                                   *)
find_duplicate_id(n) == ~IsInjective(task_ids(n))

(* Faulty variant: what follows a node is listed before what it contains. *)
RECURSIVE iter_next_first(_, _)
iter_next_first(n, predecessor) ==
  <<[id |-> n.id, kind |-> n.kind, predecessor_id |-> predecessor]>>
    \o FlattenSeq([i \in DOMAIN n.next |-> iter_next_first(n.next[i], n.id)])
    \o FlattenSeq([i \in DOMAIN n.subs |-> iter_next_first(n.subs[i], n.id)])

(* NodeIter: depth first, a node before what it contains and that before    *)
(* what follows; each entry has the id of the node that leads to it.        *)
RECURSIVE iter_from(_, _)
iter_from(n, predecessor) ==
  <<[id |-> n.id, kind |-> n.kind, predecessor_id |-> predecessor]>>
    \o FlattenSeq([i \in DOMAIN n.subs |-> iter_from(n.subs[i], n.id)])
    \o FlattenSeq([i \in DOMAIN n.next |-> iter_from(n.next[i], n.id)])
iter_nodes(n) == iter_from(n, "")

(* find_task_mut: the first task of that id, not looking into fork branches *)
(* or children, which are shared.                                           *)
RECURSIVE set_task_metadata(_, _, _)
set_task_metadata(n, id, m) ==
  LET deeper(k) == [i \in DOMAIN k |-> set_task_metadata(k[i], id, m)]
  IN IF n.kind = "Task" /\ n.id = id THEN [n EXCEPT !.n = m]
     ELSE [n EXCEPT !.next = deeper(@),
                    !.subs = IF n.kind \in {"Branch", "Loop"} THEN deeper(@) ELSE @]

(* ---- the serialized form ---------------------------------------------- *)

(* to_serializable keeps ids, structure and metadata, no callable. *)
RECURSIVE to_serializable(_)
to_serializable(n) ==
  [n EXCEPT !.fn = "", !.subs = [i \in DOMAIN @ |-> to_serializable(@[i])],
            !.next = [i \in DOMAIN @ |-> to_serializable(@[i])]]

(* The metadata a step may have (0: none): a retry policy (max_retries,      *)
(* initial delay, backoff); a timeout, a policy and a version; the same with *)
(* a priority and tags.                                                      *)
Metadata == <<[timeout |-> "", retry |-> "1:100:2", version |-> "", hints |-> FALSE],
              [timeout |-> "30000", retry |-> "2:100:2", version |-> "v1", hints |-> FALSE],
              [timeout |-> "30000", retry |-> "2:100:2", version |-> "v1", hints |-> TRUE]>>

(* Ids, keys, names and versions go into the text as they are, the keys of a *)
(* route in their order.  Priority and tags do not.                          *)
Concat(texts) == FoldLeft(LAMBDA a, t : a \o t, "", texts)
Field(tag, text) == IF text = "" THEN "" ELSE tag \o text
KeyOrder == <<"l", "o", "r">>
hash_metadata(n) ==
  IF n = 0 THEN ""
  ELSE Concat(<<Field(":t:", Metadata[n].timeout), Field(":r:", Metadata[n].retry),
                Field(":v:", Metadata[n].version)>>)

(* Faulty variant: the bound of a loop is not part of the definition. *)
hash_loop_unbounded(n, body) == Concat(<<"L:", n.id, ":", n.pick, "{", body, "};">>)
hash_loop(n, body) == Concat(<<"L:", n.id, ":", ToString(n.n), ":", n.pick, "{", body, "};">>)

(* compute_definition_hash: the text that is hashed. *)
RECURSIVE hash_continuation(_)
hash_continuation(n) ==
  LET subs == [i \in DOMAIN n.subs |-> hash_continuation(n.subs[i])]
      arm(key) == Concat(<<key, "=>", subs[Min(Routes(n, key))]>>)
      keys == SelectSeq(KeyOrder, LAMBDA k : Routes(n, k) # {})
      each(texts) == Concat([i \in DOMAIN texts |-> texts[i] \o ","])
      own == CASE n.kind = "Task" -> <<"T:", n.id, hash_metadata(n.n), ";">>
               [] n.kind = "Delay" -> <<"D:", n.id, ":", ToString(n.n), ";">>
               [] n.kind = "AwaitSignal" -> <<"S:", n.id, ":", n.pick, IF n.to THEN ":t:1000" ELSE "", ";">>
               [] n.kind = "Fork" ->
                    <<"F:", n.id, "[", each(subs), "]", IF n.next = <<>> THEN "" ELSE "J:">>
               [] n.kind = "Branch" ->
                    <<"B:", n.id, "{", each([i \in DOMAIN keys |-> arm(keys[i])]), "}",
                      IF Routes(n, "_") = {} THEN "" ELSE arm("_"), ";">>
               [] n.kind = "Loop" -> <<hash_loop(n, subs[1])>>
               [] OTHER -> <<"CW:", n.id, "{", subs[1], "};">>
  IN Concat(own \o [i \in DOMAIN n.next |-> hash_continuation(n.next[i])])

(* ---- back to a runnable tree ------------------------------------------ *)

(* A registry maps an id to a callable and its metadata. *)
Get(reg, id) == IF id \in DOMAIN reg THEN reg[id].fn ELSE ""
GetMeta(reg, id) == IF id \in DOMAIN reg THEN reg[id].n ELSE 0

(* The callables of a tree are those a registry has for its ids. *)
RECURSIVE Bind(_, _)
Bind(n, reg) ==
  [n EXCEPT !.fn = CASE n.kind = "Task" -> Get(reg, n.id)
                     [] n.kind = "Branch" -> Get(reg, key_fn_id(n.id))
                     [] OTHER -> n.id,
            !.subs = [i \in DOMAIN @ |-> Bind(@[i], reg)],
            !.next = [i \in DOMAIN @ |-> Bind(@[i], reg)]]

RECURSIVE Unbound(_)
Unbound(n) ==
  \/ n.kind \in {"Task", "Branch"} /\ n.fn = ""
  \/ \E m \in ToSet(n.subs) \cup ToSet(n.next) : Unbound(m)

(* to_runnable: None when an id is used twice or has no callable. *)
to_runnable(n, reg) ==
  IF find_duplicate_id(n) \/ Unbound(Bind(n, reg)) THEN <<>> ELSE <<Bind(n, reg)>>

(* ---- what its callables make a tree compute ---------------------------- *)

(* The key a route takes and the length of a loop follow from the callables; *)
(* a body that returns no LoopResult is an error, as no iteration is.        *)
RECURSIVE Meaning(_)
Meaning(n) ==
  LET body == n.subs[1].fn
      base == [n EXCEPT !.subs = [i \in DOMAIN @ |-> Meaning(@[i])],
                        !.next = [i \in DOMAIN @ |-> Meaning(@[i])]]
  IN CASE n.kind = "Branch" ->
            [base EXCEPT !.pick = IF n.fn \in DOMAIN KeyFns THEN KeyFns[n.fn] ELSE ""]
       [] n.kind = "Loop" ->
            IF body \in DOMAIN Bodies THEN [base EXCEPT !.again = Bodies[body]]
            ELSE [base EXCEPT !.n = 0]
       [] OTHER -> base

(* execute_continuation_sync and execute_continuation_async, which have no   *)
(* store and so no signals: one result, or an error.                         *)
Outcome(r) == IF r.k = "ok" THEN [ok |-> TRUE, v |-> r.v] ELSE [ok |-> FALSE, v |-> Empty]
execute_continuation_sync(n) == Outcome(Eval(Meaning(n), Input, <<>>))
execute_async_inner(n) == Outcome(Eval(Meaning(n), Input, <<>>))
=============================================================================
