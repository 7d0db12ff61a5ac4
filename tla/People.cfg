\* Two requests of an identity that may end; two calls at once and three in all, two accounts
\* beside the two a start makes.
CONSTANTS
  r1 = r1
  r2 = r2
  Requests <- TwoRequests
  things = things
  people = people
  one = one
  Actions <- TwoPaths
  Settings <- HereOrThere
  RefusalCache = 1
  Timeout = 1
  Ends <- EndsOrNot
  Subjects = {"s1", "s2"}
  Proposed <- MCProposed
  Names = {"ann", "system"}
  Permissions = {"manage"}
  Administrative = {"manage"}
  Policy <- MCPolicy
  Changes <- MCChanges
  Given = TRUE
  Attempts = 2
  MaxAccounts = 2
  MaxCalls = 3
SPECIFICATION PeopleSpec
SYMMETRY Symmetry
INVARIANTS AnAdministratorRemains LetInAsThemselves
PROPERTIES VouchedForLately DecidedLately
CHECK_DEADLOCK FALSE
