----------------------------- MODULE ProductFeed -----------------------------
(***************************************************************************)
(* useProductFeed, the list behind the home, category and search screens:  *)
(* a first page for every change of the filter and every refresh, further  *)
(* pages as the user scrolls.  Replies come in any order; seqRef tells a   *)
(* reply that has been superseded.  What the server lists does not change. *)
(***************************************************************************)
EXTENDS Naturals, Sequences

CONSTANTS Filters,
          Calls,        \* identities of calls under way
          LastPage      \* the number of pages of each filter

VARIABLES filter,     \* the parameters of the latest render
          call,       \* the calls under way
          list,       \* the pages on the screen
          next,       \* nextUrlRef
          busy,       \* the flags loading, refreshing and loadingMore
          excused     \* history: a first page failed to load and left next behind

vars == <<filter, call, list, next, busy, excused>>

Nothing  == [filter |-> "none", number |-> 0]
Page(f, n) == [filter |-> f, number |-> n]
After(page) == IF page.number < LastPage[page.filter]
               THEN Page(page.filter, page.number + 1) ELSE Nothing

NoCall == [kind |-> "none", page |-> Nothing, stale |-> FALSE]

Kinds == {"initial", "refresh", "more"}

(* The first effect's loadFirstPage is under way. *)
Init == /\ filter \in Filters
        /\ \E c \in Calls : call = [d \in Calls |->
               IF d = c THEN [NoCall EXCEPT !.kind = "initial", !.page = Page(filter, 1)]
               ELSE NoCall]
        /\ list = <<>>
        /\ next = Nothing
        /\ busy = {"loading"}
        /\ excused = FALSE

(* loadFirstPage: the next value of seqRef makes every earlier call stale. *)
LoadFirst(c, kind, f) ==
    /\ call[c] = NoCall
    /\ call' = [d \in Calls |->
           IF d = c THEN [kind |-> kind, page |-> Page(f, 1), stale |-> FALSE]
           ELSE IF call[d] = NoCall THEN NoCall ELSE [call[d] EXCEPT !.stale = TRUE]]
    /\ busy' = busy \cup {IF kind = "initial" THEN "loading" ELSE "refreshing"}
    /\ list' = IF kind = "initial" THEN <<>> ELSE list
    /\ UNCHANGED <<next, excused>>

Change(c, f) == f # filter /\ filter' = f /\ LoadFirst(c, "initial", f)
Refresh(c)   == LoadFirst(c, "refresh", filter) /\ UNCHANGED filter
Retry(c)     == LoadFirst(c, "initial", filter) /\ UNCHANGED filter

LoadMore(c) ==
    /\ busy = {} /\ next # Nothing
    /\ call[c] = NoCall
    /\ call' = [call EXCEPT ![c] = [kind |-> "more", page |-> next, stale |-> FALSE]]
    /\ busy' = {"more"}
    /\ UNCHANGED <<filter, list, next, excused>>

-----------------------------------------------------------------------------
(* The finally blocks: a stale call leaves the flags alone. *)
Cleared(c) == IF call[c].stale THEN busy
              ELSE IF call[c].kind = "more" THEN busy \ {"more"}
              ELSE busy \ {"loading", "refreshing"}

Done(c) == /\ call' = [call EXCEPT ![c] = NoCall]
           /\ busy' = Cleared(c)
           /\ UNCHANGED filter

(* seq !== seqRef.current *)
MutSuperseded(c) == call[c].stale /\ call[c].kind # "more"
Superseded(c) == call[c].stale

Reply(c) ==
    LET x == call[c] IN
    /\ x # NoCall
    /\ IF Superseded(c) THEN UNCHANGED <<list, next, excused>>
       ELSE /\ list' = IF x.kind = "more" THEN Append(list, x.page) ELSE <<x.page>>
            /\ next' = After(x.page)
            /\ excused' = (excused /\ x.kind = "more")
    /\ Done(c)

(* An error is shown, the list and nextUrlRef stay. *)
Fail(c) ==
    /\ call[c] # NoCall
    /\ excused' = (excused \/ (~ Superseded(c) /\ call[c].kind # "more" /\ list = <<>>))
    /\ Done(c)
    /\ UNCHANGED <<list, next>>

Next == \E c \in Calls : \/ \E f \in Filters : Change(c, f)
                         \/ Refresh(c) \/ Retry(c) \/ LoadMore(c)
                         \/ Reply(c) \/ Fail(c)

Spec == Init /\ [][Next]_vars

-----------------------------------------------------------------------------
Pages == [filter : Filters \cup {"none"}, number : Nat]

TypeOK == /\ filter \in Filters
          /\ call \in [Calls -> [kind : Kinds \cup {"none"}, page : Pages, stale : BOOLEAN]]
          /\ list \in Seq(Pages) /\ next \in Pages
          /\ busy \subseteq {"loading", "refreshing", "more"}
          /\ excused \in BOOLEAN

(* However the replies are ordered, the list is a run of pages of the      *)
(* current filter, none missing, none twice, and what would be appended    *)
(* continues it - unless a first page failed to load before.  And as long  *)
(* as the spinner of a first page turns, that page is on its way.          *)
FeedIsOneListing ==
    /\ ~ excused => \A n \in DOMAIN list : list[n] = Page(filter, n)
    /\ busy = {} /\ ~ excused /\ list # <<>> => next = After(list[Len(list)])
    /\ busy \cap {"loading", "refreshing"} # {}
           => \E c \in Calls : call[c].kind \in {"initial", "refresh"} /\ ~ call[c].stale

-----------------------------------------------------------------------------
(***************************************************************************)
(* What the comments say and the code does not keep.                       *)
(***************************************************************************)
(* "Param changes reload page 1 (results cleared)": if that page fails to  *)
(* load, scrolling goes on with the filter before.                         *)
ListedAsFiltered == \A n \in DOMAIN list : list[n].filter = filter

(* "Infinite scroll appends pages": a refresh while a page is loading      *)
(* leaves loadingMore set for good.                                        *)
ScrollGoesOn == "more" \in busy => \E c \in Calls : call[c].kind = "more" /\ ~ call[c].stale
=============================================================================
