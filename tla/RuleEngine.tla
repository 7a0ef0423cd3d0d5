------------------------------ MODULE RuleEngine ------------------------------
(***************************************************************************)
(* The rule engine (rules/engine.py), the adapter that turns the           *)
(* conditions of a library into rules for it (rules/legacy_conditions.py), *)
(* the expert rules and the copy of a library's conditions into one of     *)
(* them (db/schema.py).  All of it is pure: operators without variables.   *)
(*                                                                         *)
(* Dates are ages in days.  None is Python's None.  What the rules know of *)
(* a media is its watch state                                              *)
(*     [added, last, plays, never]                                         *)
(* the age of the media, of its last play (None: not played or no date on  *)
(* record), its play count and whether nobody has played it.               *)
(***************************************************************************)
EXTENDS Integers, Sequences, SequencesExt

CONSTANT None

NumericOps == {"gt", "lt", "gte", "lte", "eq"}
ListOps    == {"in", "not_in"}

Bit(b) == IF b THEN 1 ELSE 0

-----------------------------------------------------------------------------
(* rules/engine.py *)

Compare(op, a, b) ==
    \/ op = "gt"  /\ a > b
    \/ op = "lt"  /\ a < b
    \/ op = "gte" /\ a >= b
    \/ op = "lte" /\ a <= b
    \/ op = "eq"  /\ a = b

(* evaluate_condition: a missing field is false, and so is None, which is
   never in a list and fails every comparison. *)
ConditionHolds(c, item) ==
    /\ c.field \in DOMAIN item
    /\ item[c.field] # None
    /\ \/ c.op \in NumericOps /\ Compare(c.op, item[c.field], c.value)
       \/ c.op = "in"         /\ item[c.field] \in c.value
       \/ c.op = "not_in"     /\ item[c.field] \notin c.value

GroupHolds(g, item) ==
    IF g.op = "AND" THEN \A i \in DOMAIN g.conds : ConditionHolds(g.conds[i], item)
                    ELSE \E i \in DOMAIN g.conds : ConditionHolds(g.conds[i], item)

(* evaluate_rule.  A validated group has a condition, so none is skipped. *)
RuleHolds(rule, item) ==
    /\ rule.enabled
    /\ rule.groups # <<>>
    /\ IF rule.op = "AND"
       THEN \A i \in DOMAIN rule.groups : GroupHolds(rule.groups[i], item)
       ELSE \E i \in DOMAIN rule.groups : GroupHolds(rule.groups[i], item)

-----------------------------------------------------------------------------
(* The conditions of a library. *)

OneCondition(f, op, v) ==
    [op |-> "AND", conds |-> <<[field |-> f, op |-> op, value |-> v]>>]

(* _legacy_condition_to_group, for a condition that LegacyValid admits: an
   unknown field or operator raises or falls through to None.  The operator
   of never_watched is not read. *)
LegacyGroup(c) ==
    CASE c.field = "days_since_added" -> OneCondition("added_days_ago", c.op, c.value)
      [] c.field = "play_count" -> OneCondition("play_count", c.op, c.value)
      [] c.field = "never_watched" -> OneCondition("never_watched", "eq", Bit(c.value # 0))
      [] c.field = "days_not_watched" ->
            [op |-> "OR",
             conds |-> <<[field |-> "never_watched", op |-> "eq", value |-> 1],
                         [field |-> "days_not_watched", op |-> c.op, value |-> c.value]>>]

LegacyValid(c) ==
    \/ c.field = "never_watched"
    \/ c.field \in {"days_since_added", "play_count", "days_not_watched"}
       /\ c.op \in NumericOps

(* The item _evaluate_conditions hands to the engine: a date that is not
   known is a missing field. *)
LegacyItem(w) ==
    [f \in {"play_count", "never_watched"}
           \cup (IF w.added # None THEN {"added_days_ago"} ELSE {})
           \cup (IF ~w.never /\ w.last # None THEN {"days_not_watched"} ELSE {})
     |-> CASE f = "play_count" -> w.plays
           [] f = "never_watched" -> Bit(w.never)
           [] f = "added_days_ago" -> w.added
           [] f = "days_not_watched" -> w.last]

(* _evaluate_conditions: an invalid condition is fatal under AND and adds
   nothing under OR. *)
EvaluateConditions(conds, logic, w) ==
    LET valid == {i \in DOMAIN conds : LegacyValid(conds[i])}
    IN /\ conds # <<>>
       /\ logic # "OR" => valid = DOMAIN conds
       /\ RuleHolds([enabled |-> TRUE, groups |-> [i \in valid |-> LegacyGroup(conds[i])],
                     op |-> IF logic = "OR" THEN "OR" ELSE "AND"], LegacyItem(w))

-----------------------------------------------------------------------------
(* The Seerr filter of a library. *)

UsersOf(filter, type) == {filter[i].user : i \in {j \in DOMAIN filter : filter[j].type = type}}

(* _seerr_filter_rejects is the negation.  User ids are positive. *)
SeerrFilterPasses(user, filter) ==
    LET includes == UsersOf(filter, "user_include")
        excludes == UsersOf(filter, "user_exclude")
    IN /\ includes # {} => user # None /\ user \in includes
       /\ excludes # {} => user \notin excludes

(* _get_seerr_grace: the override of the requester for this very library; the
   columns of the table that name several libraries are not looked at. *)
SeerrGrace(overrides, user, lib, default) ==
    LET rows == {o \in overrides : o.user = user /\ o.library = lib /\ o.enabled}
    IN IF user = None \/ rows = {} THEN {default} ELSE {o.grace : o \in rows}

-----------------------------------------------------------------------------
(* Expert rules. *)

(* _build_item_data: without a play date the age of the media stands in. *)
ExpertItem(w, user) ==
    [days_not_watched |-> IF w.last # None THEN w.last
                          ELSE IF w.added # None THEN w.added ELSE 0,
     play_count     |-> w.plays,
     added_days_ago |-> IF w.added # None THEN w.added ELSE 0,
     seerr_user_id  |-> user,
     never_watched  |-> Bit(w.plays = 0 /\ w.last = None)]

(* A rule with a list of libraries ignores the older single one. *)
AppliesTo(rule, lib) ==
    IF rule.libraries # None THEN lib \in rule.libraries
                             ELSE rule.library # None => rule.library = lib

(* _evaluate_expert_rules: the first rule in order of priority that applies
   and holds decides, a rule that only notifies included. *)
Deciding(rules, item, lib) ==
    {i \in DOMAIN rules : AppliesTo(rules[i], lib) /\ RuleHolds(rules[i], item)}

ExpertAction(rules, item, lib) ==
    LET hits == Deciding(rules, item, lib)
    IN IF hits = {} THEN [action |-> None, grace |-> 7]
       ELSE LET first == CHOOSE i \in hits : \A j \in hits : i <= j
            IN [action |-> rules[first].action, grace |-> rules[first].grace]

-----------------------------------------------------------------------------
(* _purge_stale_seerr_items (scanner/_orchestrator.py). *)

HasSeerrFilter(rule) ==
    \E i \in DOMAIN rule.groups : \E j \in DOMAIN rule.groups[i].conds :
        /\ rule.groups[i].conds[j].field = "seerr_user_id"
        /\ rule.groups[i].conds[j].op = "in"

(* The libraries a rule is filed under; an empty list counts as none. *)
FiledUnder(rule) ==
    IF rule.libraries \notin {None, {}} THEN rule.libraries
    ELSE IF rule.library # None THEN {rule.library} ELSE {}

(* Mutation: rules for all libraries are forgotten. *)
RequiringSeerrLocalOnly(rules) ==
    {lib \in UNION {FiledUnder(rules[i]) : i \in DOMAIN rules} :
        \A i \in DOMAIN rules : lib \in FiledUnder(rules[i]) => HasSeerrFilter(rules[i])}

(* Pending rows of these libraries without a requester are deleted. *)
RequiringSeerr(rules) ==
    {lib \in UNION {FiledUnder(rules[i]) : i \in DOMAIN rules} :
        \A i \in DOMAIN rules :
            lib \in FiledUnder(rules[i]) \/ FiledUnder(rules[i]) = {} => HasSeerrFilter(rules[i])}

-----------------------------------------------------------------------------
(* The copy of a library's conditions into an expert rule. *)

KnownFields == {"never_watched", "days_not_watched", "days_since_added",
                "added_days_ago", "play_count"}

(* An unknown field is dropped. *)
Copied(c) ==
    IF c.field \notin KnownFields THEN <<>>
    ELSE IF c.field = "never_watched"
    THEN <<[field |-> "play_count", op |-> IF c.value # 0 THEN "eq" ELSE "gte",
            value |-> IF c.value # 0 THEN 0 ELSE 1]>>
    ELSE <<[field |-> IF c.field = "days_since_added" THEN "added_days_ago" ELSE c.field,
            op |-> c.op, value |-> c.value]>>

(* Mutation: the include filter is lost on the way. *)
CopyWithoutIncludes(conds, filter) ==
    FlattenSeq([i \in DOMAIN conds |-> Copied(conds[i])])

(* The condition that stands for the users of one type in the Seerr filter. *)
UserList(filter, type, op) ==
    IF UsersOf(filter, type) = {} THEN <<>>
    ELSE <<[field |-> "seerr_user_id", op |-> op, value |-> UsersOf(filter, type)]>>

(* _build_expert_conditions: the Seerr filter becomes conditions like any
   other. *)
BuildExpertConditions(conds, filter) ==
    FlattenSeq([i \in DOMAIN conds |-> Copied(conds[i])])
       \o UserList(filter, "user_include", "in") \o UserList(filter, "user_exclude", "not_in")

(* _parse_condition_groups of the flat list that the copy stores: one group,
   with the operator of the rule; one condition that does not validate and
   the whole list is lost. *)
ParsedGroups(flat, op) ==
    IF flat = <<>> \/ \E i \in DOMAIN flat : flat[i].op \notin NumericOps \cup ListOps
    THEN <<>> ELSE <<[op |-> op, conds |-> flat]>>

(* The rule as the next scan reads it.  A library without conditions, or
   whose conditions all vanish, is not copied. *)
CopiedRule(lib) ==
    LET flat == BuildExpertConditions(lib.conds, lib.filter)
    IN [enabled |-> lib.conds # <<>> /\ flat # <<>> /\ lib.enabled,
        groups |-> ParsedGroups(flat, lib.logic), op |-> lib.logic,
        libraries |-> None, library |-> lib.id, action |-> "queue", grace |-> 7]
=============================================================================
