----------------------------- MODULE StepPages -----------------------------
(***************************************************************************)
(* How a user reads the steps: GetTarget lists the steps of a target and   *)
(* GetTargetDirStepChildren those of a directory, page by page, newest     *)
(* first.  Each page is a query of its own, so steps are recorded and      *)
(* deleted between two pages of a walk.  The source is                     *)
(* src/internal/data/step.go over the queries of                           *)
(* src/internal/data/ent/step_query.go.                                    *)
(***************************************************************************)
EXTENDS StepFiles, FiniteSets

CONSTANTS
    Word,              \* bound: page numbers are unsigned and below Word (2^32)
    DefaultPageSize    \* of a request that names none (10)

ASSUME WordAssumption == Word \in Nat /\ DefaultPageSize \in 1 .. Word - 1

Numbers == 0 .. Word - 1

\* The steps of a target, those in its directories included.
TargetSteps(t) == {s \in Stored : steps[s].target = t}

DirSteps(d) == {s \in Stored : steps[s].parent = d}

\* The listings a user gets an answer for: the target, or the directory whose
\* owner is found, is there.
Listings == {TargetSteps(t) : t \in live}
       \cup {DirSteps(d) : d \in {s \in Stored : TargetOf[s] # NoTarget}}

\* Mutant: the oldest first.
RankOldest(l, s) == Cardinality({x \in l : x <= s})

\* Order(Desc(id)): the place of a step in its listing, from 1.
Rank(l, s) == Cardinality({x \in l : x >= s})

\* A page number of 0 is the first page, a size of 0 the default.
PageNumber(page) == IF page = 0 THEN 1 ELSE page
PageSize(size)   == IF size = 0 THEN DefaultPageSize ELSE size

\* Mutant: pages are counted from 0.
OffsetFromZero(page, size) == (PageNumber(page) * PageSize(size)) % Word

\* The product is computed in uint32 and converted afterwards.
Offset(page, size) == ((PageNumber(page) - 1) * PageSize(size)) % Word

\* Offset(...).Limit(...).All: what the page shows of the listing.
Shows(page, size, place) == /\ place > Offset(page, size)
                            /\ place <= Offset(page, size) + PageSize(size)

-----------------------------------------------------------------------------
Wraps(page, size) == (PageNumber(page) - 1) * PageSize(size) >= Word

(***************************************************************************)
(* The k-th step of a listing is on one page, the one that holds the k-th  *)
(* place, and a page behind the last step is empty; but for pages so far   *)
(* out that the offset wraps, which show the beginning again.              *)
(***************************************************************************)
PagesPartition ==
    \A l \in Listings : \A s \in l :
        LET place == Rank(l, s) IN
        \A size \in Numbers, page \in Numbers :
            ~Wraps(page, size) =>
                (Shows(page, size, place)
                    <=> PageNumber(page) = (place - 1) \div PageSize(size) + 1)

(***************************************************************************)
(* A walk through the pages while the table changes.  After any change, a  *)
(* step that was still to come is skipped only if one already shown left   *)
(* the listing; one already shown comes again only if one was added; and   *)
(* a step that was added is not among those still to come.                 *)
(***************************************************************************)
WalkMeets(l, new, n) ==
    /\ \A s \in l \cap new :
          /\ Rank(l, s) > n /\ Rank(new, s) <= n => \E x \in l \ new : Rank(l, x) <= n
          /\ Rank(l, s) <= n /\ Rank(new, s) > n => new \ l # {}
    /\ \A s \in new \ l : Rank(new, s) <= n

WalkSkipsOnlyDeleted ==
    [][steps' # steps =>
         \A n \in 1 .. MaxSteps :
            /\ \A t \in live \cap live' : WalkMeets(TargetSteps(t), TargetSteps(t)', n)
            /\ \A d \in StepIds : WalkMeets(DirSteps(d), DirSteps(d)', n)]_vars
=============================================================================
