---------------------------- MODULE MongoDatabase ----------------------------
(***************************************************************************)
(* src/src/database/MongoDatabase.cpp: the MongoDB database backend.        *)
(* submit() runs each operation synchronously (handle_operation), so the    *)
(* handlers never interleave; what makes the backend hard is that every    *)
(* handler is a sequence of MongoDB commands, each of which may fail        *)
(* (runCommand returns false, or the result value is null) or throw a       *)
(* bson::assertion, and that the process may die between two of them       *)
(* while the globals document and the objects survive in MongoDB.          *)
(*                                                                         *)
(* An object is its dclass and the value of one field; a doid is a number *)
(* in MinId..MaxId, INVALID_DO_ID is 0.                                    *)
(***************************************************************************)
EXTENDS Naturals, Sequences

CONSTANTS
  MinId, MaxId,   \* the backend's doid range (m_min_id, m_max_id)
  Classes,        \* dclasses of stored objects
  Vals,           \* values of the field (an empty value means unset)
  Faults,         \* failure outcomes of MongoDB calls: subset of {"fail", "assert"}
  MaxOps,         \* bound on the operations submitted
  Crashes         \* the process may die between two MongoDB commands

ASSUME MinId \in Nat \ {0} /\ MaxId >= MinId /\ Faults \subseteq {"fail", "assert"}

Doids    == MinId..MaxId
Invalid  == 0                          \* INVALID_DO_ID
Throw    == MaxId + 1                  \* a bson::assertion escapes the call
Outcomes == {"ok"} \cup Faults
NoObj    == [cls |-> "none", val |-> "none"]
FieldVals == Vals \cup {"unset"}
NoCrit   == "none"                     \* an operation without criteria fields
NoOp     == [op |-> "idle", doid |-> Invalid, obj |-> NoObj]

VARIABLES
  monotonic,  \* globals document: doid.monotonic
  free,       \* globals document: doid.free
  objs,       \* the astron.objects collection: doid -> object or NoObj
  exhausted,  \* m_monotonic_exhausted
  pc,         \* the operation between two MongoDB commands, or NoOp
  reply,      \* the last operation's reply, with the object before and after
  ops         \* operations submitted so far

vars == <<monotonic, free, objs, exhausted, pc, reply, ops>>

Reply(op, d, kind) ==
  [op |-> op, doid |-> d, kind |-> kind, set |-> "none", crit |-> NoCrit,
   before |-> NoObj, after |-> NoObj, revertFailed |-> FALSE]

----------------------------------------------------------------------------

\* assign_doid_monotonic: findandmodify on GLOBALS with the counter inside
\* [m_min_id, m_max_id], $inc; the old counter is the doid.
Monotonic(o) ==
  CASE o = "assert"                    -> Throw
    [] o = "ok" /\ monotonic \in Doids -> monotonic
    [] OTHER                           -> Invalid

\* The $pop of assign_doid_reuse: {"doid.free": -1} removes the first element.
PopFreeLast(f) == SubSeq(f, 1, Len(f) - 1)
PopFree(f) == Tail(f)

\* assign_doid_reuse: findandmodify on GLOBALS with doid.free.0 existing,
\* $pop; the old list's first element is the doid.
Reuse(o) ==
  CASE o = "assert"                -> Throw
    [] o = "ok" /\ free # <<>>     -> Head(free)
    [] OTHER                       -> Invalid

\* assign_doid: the monotonic counter until it first fails, then the free
\* list; a throw anywhere is caught and gives INVALID_DO_ID.  Returns the
\* doid, which counter it came from, and the new m_monotonic_exhausted.
AssignDoid(o1, o2) ==
  LET m == Monotonic(o1)
      r == Reuse(o2)
  IN CASE ~exhausted /\ m = Throw       -> [doid |-> Invalid, via |-> "none", ex |-> FALSE]
       [] ~exhausted /\ m \in Doids     -> [doid |-> m, via |-> "monotonic", ex |-> FALSE]
       [] r \in Doids                   -> [doid |-> r, via |-> "reuse", ex |-> TRUE]
       [] OTHER                         -> [doid |-> Invalid, via |-> "none", ex |-> TRUE]

\* The query of handle_modify: the doid, and each criteria field equal to
\* its value or, for an empty value, not existing.
Matches(o, c) == o # NoObj /\ (c = NoCrit \/ o.val = c)

\* format_snapshot followed by verify_class: reading the dclass may throw
\* (NULL snapshot), and the class must be the one the operation expects.
Snapshot(o, obj, ec) == o = "ok" /\ obj # NoObj /\ obj.cls = ec

\* handle_modify's check of a change that went through: the dclass of the
\* returned document is read (which may throw) and verify_class'd.
Verified(o, old, ec) == o = "ok" /\ old.cls = ec

\* The revert of handle_modify: update the object back to the document
\* findandmodify returned, which is the one before the update.
Revert(old, new) == old

Idle == pc = NoOp /\ ops < MaxOps

\* handle_create, up to the assigned doid: unpack_bson (which may throw),
\* then assign_doid.
CreateAssign(cls, v) ==
  /\ Idle
  /\ \E u, o1, o2 \in Outcomes :
       LET a == AssignDoid(o1, o2) IN
       \/ /\ u = "assert"
          /\ reply' = Reply("create", Invalid, "failure")
          /\ UNCHANGED <<monotonic, free, exhausted, pc>>
       \/ /\ u # "assert"
          /\ exhausted' = a.ex
          /\ monotonic' = IF a.via = "monotonic" THEN monotonic + 1 ELSE monotonic
          /\ free' = IF a.via = "reuse" THEN PopFree(free) ELSE free
          /\ IF a.doid = Invalid
             THEN pc' = NoOp /\ reply' = Reply("create", Invalid, "failure")
             ELSE pc' = [op |-> "create", doid |-> a.doid, obj |-> [cls |-> cls, val |-> v]]
                  /\ UNCHANGED reply
  /\ ops' = ops + 1
  /\ UNCHANGED objs

\* handle_create, the rest: insert the object.  A bson::assertion fails the
\* operation; a plain insert is fire-and-forget, so a duplicate _id is
\* dropped by the server and the client still reports success.
CreateInsert ==
  /\ pc.op = "create"
  /\ \E o \in Outcomes \ {"fail"} :
       \/ /\ o = "assert"
          /\ reply' = Reply("create", pc.doid, "failure")
          /\ UNCHANGED objs
       \/ /\ o = "ok"
          /\ objs' = IF objs[pc.doid] = NoObj THEN [objs EXCEPT ![pc.doid] = pc.obj] ELSE objs
          /\ reply' = [Reply("create", pc.doid, "complete") EXCEPT
                         !.before = objs[pc.doid], !.after = objs'[pc.doid]]
  /\ pc' = NoOp
  /\ UNCHANGED <<monotonic, free, exhausted, ops>>

\* handle_delete, up to the removal: findandmodify with remove.
DeleteRemove(d) ==
  /\ Idle
  /\ \E o \in Outcomes :
       IF o = "ok" /\ objs[d] # NoObj
       THEN /\ objs' = [objs EXCEPT ![d] = NoObj]
            /\ pc' = [op |-> "delete", doid |-> d, obj |-> objs[d]]
            /\ UNCHANGED reply
       ELSE /\ reply' = Reply("delete", d, "failure")
            /\ UNCHANGED <<objs, pc>>
  /\ ops' = ops + 1
  /\ UNCHANGED <<monotonic, free, exhausted>>

\* handle_delete, the rest: free_doid pushes the doid onto the free list;
\* a bson::assertion there is logged and swallowed.
DeleteFree ==
  /\ pc.op = "delete"
  /\ \E o \in Outcomes \ {"fail"} :
       free' = IF o = "ok" THEN Append(free, pc.doid) ELSE free
  /\ reply' = Reply("delete", pc.doid, "complete")
  /\ pc' = NoOp
  /\ UNCHANGED <<monotonic, objs, exhausted, ops>>

\* handle_get: findOne, then format_snapshot (whose reading of the dclass
\* may throw) and verify_class.
Get(d, ec) ==
  /\ Idle
  /\ \E o1, o2 \in Outcomes \ {"fail"} :
       reply' = [Reply("get", d,
                       IF o1 = "ok" /\ Snapshot(o2, objs[d], ec)
                       THEN "complete" ELSE "failure")
                 EXCEPT !.before = objs[d], !.after = objs[d]]
  /\ ops' = ops + 1
  /\ UNCHANGED <<monotonic, free, objs, exhausted, pc>>

\* handle_modify: findandmodify with the criteria in the query and $set or
\* $unset of the field.  On success the returned (old) document's dclass
\* is checked with verify_class, and a rejected change is reverted.  On
\* failure with criteria, findOne tells a criteria mismatch (the object is
\* there) from a missing doid.
Modify(d, set, crit, ec) ==
  /\ Idle
  /\ \E o1 \in Outcomes, o2, o3 \in Outcomes \ {"fail"} :
       LET before  == objs[d]
           applied == [before EXCEPT !.val = set]
           base    == [Reply("modify", d, "failure") EXCEPT
                         !.set = set, !.crit = crit, !.before = before]
       IN CASE o1 = "assert" ->
                 objs' = objs /\ reply' = [base EXCEPT !.after = before]
            [] o1 = "ok" /\ Matches(before, crit) /\ Verified(o2, before, ec) ->
                 /\ objs' = [objs EXCEPT ![d] = applied]
                 /\ reply' = [base EXCEPT !.kind = "complete", !.after = applied]
            [] o1 = "ok" /\ Matches(before, crit) ->
                 LET after == IF o3 = "ok" THEN Revert(before, applied) ELSE applied
                 IN /\ objs' = [objs EXCEPT ![d] = after]
                    /\ reply' = [base EXCEPT !.after = after, !.revertFailed = (o3 # "ok")]
            [] crit # NoCrit /\ Snapshot(o2, before, ec) ->
                 objs' = objs /\ reply' = [base EXCEPT !.kind = "mismatch", !.after = before]
            [] OTHER ->
                 objs' = objs /\ reply' = [base EXCEPT !.after = before]
  /\ ops' = ops + 1
  /\ UNCHANGED <<monotonic, free, exhausted, pc>>

\* The process dies and restarts: the operation in progress is lost and the
\* constructor runs again (its insert of GLOBALS fails on the existing
\* document, and m_monotonic_exhausted starts false).  MongoDB keeps its
\* state.
Restart ==
  /\ Crashes
  /\ pc' = NoOp /\ exhausted' = FALSE
  /\ UNCHANGED <<monotonic, free, objs, reply, ops>>

\* The constructor: GLOBALS with the counter at m_min_id and an empty free
\* list; no objects.
Init ==
  /\ monotonic = MinId /\ free = <<>> /\ objs = [d \in Doids |-> NoObj]
  /\ exhausted = FALSE /\ pc = NoOp /\ reply = Reply("none", Invalid, "none") /\ ops = 0

\* handle_operation dispatches each submitted operation.
Next ==
  \/ \E cls \in Classes, v \in FieldVals : CreateAssign(cls, v)
  \/ CreateInsert
  \/ \E d \in Doids : DeleteRemove(d)
  \/ DeleteFree
  \/ \E d \in Doids, ec \in Classes : Get(d, ec)
  \/ \E d \in Doids, set \in FieldVals, crit \in FieldVals \cup {NoCrit}, ec \in Classes :
       Modify(d, set, crit, ec)
  \/ Restart

Spec == Init /\ [][Next]_vars

----------------------------------------------------------------------------
(* Properties *)

\* No doid is handed out twice: the free list holds no doid twice and no
\* doid of a stored object, only doids the counter has passed, and the doid
\* a create is about to insert is neither stored nor free.  This rests on
\* the order of handle_delete (remove, then free_doid), on findandmodify
\* returning the document before its $inc or $pop, and on the $pop taking
\* the element assign_doid_reuse reads.
DoidsDistinct ==
  LET F == {free[i] : i \in DOMAIN free} IN
  /\ \A i, j \in DOMAIN free : i # j => free[i] # free[j]
  /\ \A d \in F : objs[d] = NoObj /\ d < monotonic
  /\ \A d \in Doids : objs[d] # NoObj => d < monotonic
  /\ pc.op = "create" => objs[pc.doid] = NoObj /\ pc.doid \notin F

\* Every doid the monotonic counter has issued stays in circulation: it
\* names a stored object, waits on the free list, or is held by the create
\* or delete handler in progress.  handle_create converts the fields before
\* assign_doid so that a failure does not waste a doid (its comment), and
\* free_doid is how handle_delete gives one back.
DoidsConserved ==
  \A d \in MinId..(monotonic - 1) :
    \/ objs[d] # NoObj
    \/ \E i \in DOMAIN free : free[i] = d
    \/ pc.op \in {"create", "delete"} /\ pc.doid = d

=============================================================================
