------------------------------ MODULE PageTable ------------------------------
(* The random translation of pages, Memory::page_allocator in Memory.h: the    *)
(* cores ask for pages in any order, the first time for each at a random place *)
(* of the memory.                                                              *)
EXTENDS Integers, FiniteSets

CONSTANTS Owner, Page, \* cores and the numbers of their virtual pages
          Pages        \* number of physical pages
ASSUME PagesAssumption == Pages \in Nat \ {0} /\ Owner \subseteq Nat

VARIABLES page_translation,              \* (core, virtual page) -> physical page, of those asked for
          free_physical_pages,           \* physical page -> its core, or Free
          free_physical_pages_remaining,
          physical_page_replacement,     \* number of pages that got one already in use
          assert_failed                  \* an assertion did not hold
pageVars == <<page_translation, free_physical_pages, free_physical_pages_remaining, physical_page_replacement, assert_failed>>

Free == -1
Physical == 0 .. Pages - 1
Targets == Owner \X Page

(* The search goes from the random page to the first free one, around the      *)
(* memory, and stops where it began. (Mutant: there is no search.)             *)
Drawn(drawn) == {drawn}
Searched(drawn) ==
  {n \in Physical : \E k \in 0 .. Pages :
     /\ n = (drawn + k) % Pages
     /\ \A j \in 0 .. k - 1 : free_physical_pages[(drawn + j) % Pages] # Free
     /\ free_physical_pages[n] = Free \/ k = Pages}
Exhausted == free_physical_pages_remaining = 0
Translated(target, n) == [t \in DOMAIN page_translation \cup {target} |-> IF t = target THEN n ELSE page_translation[t]]

PageInit ==
  /\ page_translation = [t \in {} |-> 0]
  /\ free_physical_pages = [n \in Physical |-> Free]
  /\ free_physical_pages_remaining = Pages
  /\ physical_page_replacement = 0 /\ assert_failed = FALSE

Known(target) == target \in DOMAIN page_translation /\ UNCHANGED pageVars
Replace(target) ==
  /\ target \notin DOMAIN page_translation /\ Exhausted
  /\ physical_page_replacement' = physical_page_replacement + 1
  /\ \E n \in Physical :
       /\ page_translation' = Translated(target, n)
       /\ assert_failed' = (assert_failed \/ free_physical_pages[n] = Free)
  /\ UNCHANGED <<free_physical_pages, free_physical_pages_remaining>>
Allocate(target) ==
  /\ target \notin DOMAIN page_translation /\ ~Exhausted
  /\ \E drawn \in Physical : \E n \in Searched(drawn) :
       /\ page_translation' = Translated(target, n)
       /\ free_physical_pages' = [free_physical_pages EXCEPT ![n] = target[1]]
       /\ assert_failed' = (assert_failed \/ free_physical_pages[n] # Free)
  /\ free_physical_pages_remaining' = free_physical_pages_remaining - 1
  /\ UNCHANGED physical_page_replacement
page_allocator(target) == Known(target) \/ Replace(target) \/ Allocate(target)
PageNext == \E target \in Targets : page_allocator(target)
PageSpec == PageInit /\ [][PageNext]_pageVars

-----------------------------------------------------------------------------
PageTypeOK ==
  /\ DOMAIN page_translation \subseteq Targets
  /\ \A t \in DOMAIN page_translation : page_translation[t] \in Physical
  /\ free_physical_pages \in [Physical -> Owner \cup {Free}]
  /\ free_physical_pages_remaining \in 0 .. Pages
  /\ physical_page_replacement \in Nat /\ assert_failed \in BOOLEAN

(* The count of free pages, which decides whether the search for one is made,   *)
(* is that of the table, which the search reads: the assertions after it hold.  *)
RemainingCounted ==
  /\ free_physical_pages_remaining = Cardinality({n \in Physical : free_physical_pages[n] = Free})
  /\ ~assert_failed

(* No two virtual pages share a physical one.                                  *)
PagesApart ==
  \A t, u \in DOMAIN page_translation : page_translation[t] = page_translation[u] => t = u
(* They do not until a page is replaced, and the table names the core of each   *)
(* page in use.                                                                *)
ApartUntilReplaced ==
  physical_page_replacement = 0 =>
    /\ PagesApart
    /\ \A t \in DOMAIN page_translation : free_physical_pages[page_translation[t]] = t[1]
(* The table, its count and the places of the pages agree, in whatever order   *)
(* the cores ask for pages.                                                     *)
PagesKept == RemainingCounted /\ ApartUntilReplaced
=============================================================================
