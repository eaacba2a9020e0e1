------------------------------ MODULE ListQuery ------------------------------
(***************************************************************************)
(* The handler of the kinds that are served straight from a cluster's      *)
(* cache (events, virtual machines, ansible playbooks): the pipeline       *)
(* filter, sort, offset, limit of pkg/k8s/common/model/query.go, the       *)
(* filter clauses, and what each request of the dispatcher comes to.       *)
(*                                                                         *)
(* An object is a record [name, namespace, stamp, fields]; texts           *)
(* are numbers, ordered as the texts are, and 0 is the empty text.  The    *)
(* cache lists its objects in the order of a Go map, which is any order,   *)
(* so sorting yields a set of sequences: ties may come out in every order. *)
(***************************************************************************)
EXTENDS Integers, Sequences, FiniteSets, FiniteSetsExt, SequencesExt

-----------------------------------------------------------------------------
(* Filters. *)

\* One function of a clause on the text of a field; Contains, Prefix and
\* Suffix are given as relations between texts.
Clause(func, v, params, texts) ==
  LET Some(R) == \E k \in DOMAIN params : <<v, params[k]>> \in R
  IN  CASE func \in {"in", "notin"} -> v \in Range(params)
        [] func \in {"like", "contains"} -> Some(texts.contains)
        [] func = "startswith" -> Some(texts.prefix)
        [] func = "endswith" -> Some(texts.suffix)
        [] func = "equals" -> v \in Range(params)
        [] func = "notequals" -> \E k \in DOMAIN params : params[k] # v

\* Clauses with another function, and "notequals" with any number of
\* parameters but one, yield no filter at all, which is called all the same.
HasFilter(fc) ==
  \/ fc.func \in {"in", "notin", "like", "contains", "startswith", "endswith", "equals"}
  \/ fc.func = "notequals" /\ Len(fc.params) = 1

\* The result of one clause on one object.
QueryFilter(fc, obj, texts) ==
  CASE ~HasFilter(fc) -> "panic"
    [] HasFilter(fc) /\ fc.field \notin DOMAIN obj.fields -> "error"
    [] OTHER -> IF Clause(fc.func, obj.fields[fc.field], fc.params, texts)
                  THEN "keep" ELSE "drop"

\* The first filter that does not keep the object decides.
Verdict(filters, obj, texts) ==
  LET bad == {k \in DOMAIN filters : QueryFilter(filters[k], obj, texts) # "keep"}
  IN  IF bad = {} THEN "keep" ELSE QueryFilter(filters[Min(bad)], obj, texts)

ApplyFilters(objs, filters, texts) ==
  LET verdicts == {Verdict(filters, o, texts) : o \in objs}
  IN  [err |-> verdicts \cap {"panic", "error"} # {},
       objs |-> {o \in objs : Verdict(filters, o, texts) = "keep"}]

\* Name and namespace of the request: the name may be a part of the object's.
ListItemFilter(objs, query, texts) ==
  {o \in objs : /\ query.namespace \in {0, o.namespace}
                /\ query.name = 0 \/ <<o.name, query.name>> \in texts.contains}

-----------------------------------------------------------------------------
(* Order. *)

\* Time stamps compare "not before", texts "less": both are taken to be the
\* descending order.  A text is looked up in the object's metadata.
Compare(field, o1, o2) ==
  IF field = "creationTimestamp" THEN o1.stamp >= o2.stamp ELSE o1[field] < o2[field]

Less(f, o1, o2) ==
  IF f.order = "asc" THEN ~Compare(f.field, o1, o2) ELSE Compare(f.field, o1, o2)

\* "status" is registered like the others, but no metadata has it: its
\* comparison panics on the missing text.
OrderFields == {"creationTimestamp", "name", "namespace", "status"}
MetaFields == OrderFields \ {"status"}

\* Unknown fields are skipped; without any left, the newest come first.
OrderBy(query) ==
  LET known == SelectSeq(query.orderBy, LAMBDA f: f \in OrderFields)
      fields == IF known = <<>> THEN <<"creationTimestamp">> ELSE known
  IN  [k \in DOMAIN fields |-> [field |-> fields[k],
                                order |-> IF query.order = "asc" THEN "asc" ELSE "desc"]]

\* A list of two objects or more is compared by every field of the order.
SortPanics(objs, fields) ==
  Cardinality(objs) > 1 /\ \E k \in DOMAIN fields : fields[k].field \notin MetaFields

\* Every field sorts the whole list again, unstably: the last one decides.
ApplySorters(objs, fields) ==
  LET f == fields[Len(fields)]
  IN  {s \in SetToSeqs(objs) :
         \A i, j \in DOMAIN s : i < j => Less(f, s[i], s[j]) \/ ~Less(f, s[j], s[i])}

-----------------------------------------------------------------------------
(* Pages. *)

\* Mutant: the object before the offset is shown again.
ApplyOffseterRepeats(s, offset, total) ==
  IF offset # 0 /\ total > offset THEN SubSeq(s, offset, Len(s)) ELSE s

\* An offset at or past the end is ignored.
ApplyOffseter(s, offset, total) ==
  IF offset # 0 /\ total > offset THEN SubSeq(s, offset + 1, Len(s)) ELSE s

ApplyLimiter(s, limit, total) ==
  IF limit >= 0 /\ total > limit /\ limit <= Len(s) THEN SubSeq(s, 1, limit) ELSE s

\* The answers to a list request: a set, one for each order of the ties.  A
\* panic, of a filter or of the order, is answered with an error too.
ListK8SModels(objs, query, filters, texts, defaultLimit) ==
  LET kept  == ApplyFilters(ListItemFilter(objs, query, texts), filters, texts)
      total == Cardinality(kept.objs)
      limit == IF query.limit = 0 THEN defaultLimit ELSE query.limit
  IN  IF kept.err \/ SortPanics(kept.objs, OrderBy(query)) THEN {[err |-> TRUE, data |-> <<>>, total |-> 0]}
      ELSE {[err |-> FALSE, total |-> total,
             data |-> ApplyLimiter(ApplyOffseter(s, query.offset, total), limit, total)] :
              s \in ApplySorters(kept.objs, OrderBy(query))}

-----------------------------------------------------------------------------
(* The other requests.  They address the cached object by namespace and    *)
(* name; the cluster is named by the query or else by the body.             *)

GetCluster(query, data) == IF query.cluster # 0 THEN query.cluster ELSE data.cluster

Fetch(cache, namespace, name) ==
  {o \in cache : o.name = name /\ o.namespace = namespace}

\* Actions are methods found by name; none of the kinds served has one.
PerformAction(cache, namespace, name) ==
  IF Fetch(cache, namespace, name) = {} THEN "not found" ELSE "no such action"

\* None of the kinds served builds an object from a request's data.
DoCreate(data) == IF data.cluster = 0 THEN "refused" ELSE "no such method"

DoUpdate(cache, namespace, name) ==
  IF Fetch(cache, namespace, name) = {} THEN "not found" ELSE "not supported"

\* Deletion goes by name, whatever the object of that name is by now.
DoDelete(cache, server, namespace, name) ==
  IF Fetch(cache, namespace, name) = {} THEN [answer |-> "not found", server |-> server]
  ELSE IF Fetch(server, namespace, name) = {} THEN [answer |-> "error", server |-> server]
  ELSE [answer |-> "deleted", server |-> server \ Fetch(server, namespace, name)]

\* Raw text replaces the object of the address.
UpdateRawData(cache, server, namespace, name, raw) ==
  IF Fetch(cache, namespace, name) = {} THEN [answer |-> "not found", server |-> server]
  ELSE IF Fetch(server, namespace, name) = {} THEN [answer |-> "error", server |-> server]
  ELSE [answer |-> "updated",
        server |-> {IF o \in Fetch(server, namespace, name)
                      THEN [o EXCEPT !.fields = raw] ELSE o : o \in server}]
=============================================================================
