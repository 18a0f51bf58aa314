--------------------------- MODULE UsersValidator ---------------------------
(***************************************************************************)
(* UsersValidator (src/modules/users/users.validator.ts) and the values it *)
(* checks, as UsersController hands them over: a field of a body or of a   *)
(* query is missing (Unset) or has one of the values told apart here.      *)
(***************************************************************************)
EXTENDS Integers

CONSTANTS
  WellFormedEmails,   \* the strings EMAIL_REGEX accepts
  Unset,              \* undefined
  NaN,                \* what parseInt makes of a string without a number
  NotBoolean          \* an isActive of another type

ASSUME UnsetAssumption == Unset \notin WellFormedEmails

VALID_ROLES == {"ADMIN", "PLATFORM_ENGINEER", "DEVELOPER", "AUDITOR"}

(* A role may be the empty string or one that is not listed; a password    *)
(* counts by its length; page and limit are numbers parsed from the query. *)
Roles == VALID_ROLES \cup {"", "OTHER"} \cup {Unset}
SortOrders == {"asc", "desc", "other"} \cup {Unset}
Lengths == Nat \cup {Unset}
Flags == BOOLEAN \cup {Unset, NotBoolean}
Parsed == Int \cup {Unset, NaN}

(* An empty role passes for a missing one, and only here.                  *)
ValidateCreatePayload(c) ==
  /\ c.email \in WellFormedEmails
  /\ c.password # Unset /\ c.password >= 12
  /\ c.role \in VALID_ROLES \cup {"", Unset}

ValidateUpdatePayload(c) ==
  /\ c.email \in WellFormedEmails \cup {Unset}
  /\ c.role \in VALID_ROLES \cup {Unset}
  /\ c.active \in BOOLEAN \cup {Unset}

InInterval(parsed, low, high) == parsed # NaN /\ parsed >= low /\ parsed <= high

ValidateListQueriesOffByOne(c) ==
  /\ c.page = Unset \/ (c.page # NaN /\ c.page >= 0)
  /\ c.limit = Unset \/ InInterval(c.limit, 0, 101)
  /\ c.sortOrder \in {"asc", "desc", Unset}
  /\ c.role \in VALID_ROLES \cup {Unset}

ValidateListQueries(c) ==
  /\ c.page = Unset \/ (c.page # NaN /\ c.page >= 1)
  /\ c.limit = Unset \/ InInterval(c.limit, 1, 100)
  /\ c.sortOrder \in {"asc", "desc", Unset}
  /\ c.role \in VALID_ROLES \cup {Unset}
=============================================================================
