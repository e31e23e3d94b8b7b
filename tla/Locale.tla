-------------------------------- MODULE Locale ---------------------------------
(***************************************************************************)
(* locale0.cpp, locale.cpp, wlocale.cpp, xlocale.cpp: locales are counted  *)
(* references to implementations, an implementation is a vector of counted *)
(* facets, and there are a global implementation, the classic one and      *)
(* facets made lazily for it.  What is done under the locale lock is one   *)
(* step.  An operator on h is a function of the library: it returns the    *)
(* shared data it leaves.  Every thread has one locale object.             *)
(***************************************************************************)
EXTENDS Integers, Sequences, FiniteSets, SequencesExt

CONSTANTS
    Threads,
    MaxImps,        \* bound: implementations made
    Names           \* names of locales, besides "C"

None == 0
All == {"ctype", "numeric", "collate"}
Narrow == <<"ctype", "numeric">>                \* ids of facets, in the order of _Makeloc
Exotic == <<"collate">>
Wide == <<"wctype">>
Short == <<"unumeric">>
IdSeq == Narrow \o Exotic \o Wide \o Short \o <<"user">>
Ids == Range(IdSeq)
Getcat(d) == CASE d = "wctype" -> "ctype" [] d = "unumeric" -> "numeric" [] OTHER -> d
Imps == 1 .. MaxImps
Lazy == MaxImps + 1                             \* the maker of lazy facets
Makers == Imps \cup {Lazy}                      \* a facet is known by its maker and its id

VARIABLES
    h,              \* the implementations and facets
    loc,            \* of each thread: its locale's implementation
    old,            \* of each thread in locale::global: _Oldglobal
    crt             \* the C library's locale, by category

vars == <<h, loc, old, crt>>

Init ==
    /\ h = [made |-> 0, global |-> None, classic |-> None,
            refs |-> [i \in Imps |-> 0], vec |-> [i \in Imps |-> [d \in Ids |-> None]],
            mask |-> [i \in Imps |-> {}], name |-> [i \in Imps |-> "*"], xparent |-> {},
            data |-> [f \in Makers \X Ids |-> "C"], frefs |-> [f \in Makers \X Ids |-> 0], lazy |-> {}]
    /\ loc = [t \in Threads |-> None]
    /\ old = [t \in Threads |-> None]
    /\ crt = [c \in All |-> "C"]

-----------------------------------------------------------------------------
FacetIncref(g, o, d) == [g EXCEPT !.frefs[<<o, d>>] = @ + 1]
FacetDecref(g, o, d) == IF o = None THEN g ELSE [g EXCEPT !.frefs[<<o, d>>] = @ - 1]
Incref(g, i) == [g EXCEPT !.refs[i] = @ + 1]

(* _Locinfo: the C library's locale c is changed for as long as the object *)
(* lives, and put back.  A locale name the C library does not know, "*"    *)
(* among them, changes nothing.                                            *)
Locinfo(c, name) == [old |-> c, now |-> IF name = "*" THEN c ELSE [k \in All |-> name], name |-> name]
Locinfo_Addcats(l, name) == [l EXCEPT !.now = IF name = "*" THEN @ ELSE [k \in All |-> name],
                                      !.name = IF @ = "*" THEN @ ELSE name]
Locinfo_cat(c, name) == Locinfo_Addcats([old |-> c, now |-> c, name |-> ""], name)
Locinfo_dtor(l) == l.old

(* _Locimp_dtor *)
Locimp_dtor(g, i) ==
    [FoldLeft(LAMBDA a, d : FacetDecref(a, g.vec[i][d], d), g, IdSeq) EXCEPT
        !.vec[i] = [d \in Ids |-> None]]

(* delete _Decref() *)
Decref(g, i) ==
    LET less == [g EXCEPT !.refs[i] = @ - 1]
    IN  IF less.refs[i] = 0 THEN Locimp_dtor(less, i) ELSE less

New_Locimp(g) == [g EXCEPT !.made = @ + 1, !.refs[g.made + 1] = 1]

Setgloballocale(g, i) == [g EXCEPT !.global = i]

(* locale::_Init: the global and the classic locale are one, with no facets*)
Init_locales(g) ==
    IF g.global # None THEN g
    ELSE LET n == New_Locimp(g)
             i == n.made
         IN  Incref([Setgloballocale(n, i) EXCEPT !.classic = i, !.mask[i] = All, !.name[i] = "C"], i)

(* _Locimp_Addfac *)
Locimp_Addfac(g, i, d, o) ==
    [FacetDecref(FacetIncref(g, o, d), g.vec[i][d], d) EXCEPT !.vec[i][d] = o]

(* locale::_Getfacet *)
Getfacet(g, i, d) ==
    IF g.vec[i][d] = None /\ i \in g.xparent THEN g.vec[g.global][d] ELSE g.vec[i][d]

(* use_facet of an id that has a category: the locale's, or one made once  *)
(* for all locales that have none, of the name of the first that asks.     *)
Facet_Register(g, d, name) ==
    IF d \in g.lazy THEN g
    ELSE FacetIncref([g EXCEPT !.lazy = @ \union {d},
                               !.data[<<Lazy, d>>] = Locinfo(crt, name).now[Getcat(d)]], Lazy, d)
use_facet(g, i, d) ==
    IF Getfacet(g, i, d) # None THEN [g |-> g, maker |-> Getfacet(g, i, d)]
    ELSE [g |-> Facet_Register(g, d, g.name[i]), maker |-> Lazy]

(* ADDFAC: a new facet, of the C library's data, or the other locale's. *)
AddFac(g, l, i, cat, other, d) ==
    IF Getcat(d) \notin cat THEN g
    ELSE IF other = None THEN Locimp_Addfac([g EXCEPT !.data[<<i, d>>] = l.now[Getcat(d)]], i, d, i)
    ELSE LET f == use_facet(g, other, d) IN Locimp_Addfac(f.g, i, d, f.maker)

Makexloc(g, l, i, cat, other) == FoldLeft(LAMBDA a, d : AddFac(a, l, i, cat, other, d), g, Exotic)
Makewloc(g, l, i, cat, other) == FoldLeft(LAMBDA a, d : AddFac(a, l, i, cat, other, d), g, Wide)
Makeushloc(g, l, i, cat, other) == FoldLeft(LAMBDA a, d : AddFac(a, l, i, cat, other, d), g, Short)
Makeloc(g, l, i, cat, other) ==
    LET narrow == FoldLeft(LAMBDA a, d : AddFac(a, l, i, cat, other, d), g, Narrow)
        wide == Makewloc(Makexloc(narrow, l, i, cat, other), l, i, cat, other)
    IN  [Makeushloc(wide, l, i, cat, other) EXCEPT !.mask[i] = @ \union cat, !.name[i] = l.name]

(* _Locimp_ctor: a copy of src; the classic locale's facets are made now. *)
Locimp_ctor(g, src) ==
    LET n == New_Locimp(g)
        i == n.made
        copied == [n EXCEPT !.mask[i] = g.mask[src], !.name[i] = g.name[src],
                            !.xparent = IF src \in @ THEN @ \union {i} ELSE @]
    IN  IF src = g.classic THEN Makeloc(copied, Locinfo(crt, "C"), i, All, None)
        ELSE FoldLeft(LAMBDA a, d : IF g.vec[src][d] = None THEN a ELSE FacetIncref(a, g.vec[src][d], d),
                      [copied EXCEPT !.vec[i] = g.vec[src]], IdSeq)

-----------------------------------------------------------------------------
Idle(t) == old[t] = None
HasRoom == h.made < MaxImps - 1         \* room for the classic locale too
Set(t, g, i) == h' = g /\ loc' = [loc EXCEPT ![t] = i] /\ UNCHANGED <<old, crt>>

(* locale() *)
Default(t) ==
    /\ Idle(t) /\ loc[t] = None /\ h.made < MaxImps
    /\ LET g == Init_locales(h) IN Set(t, Incref(g, g.global), g.global)

(* locale::classic, locale::empty *)
Classic(t) ==
    /\ Idle(t) /\ loc[t] = None /\ h.made < MaxImps
    /\ LET g == Init_locales(h) IN Set(t, Incref(g, g.classic), g.classic)
Empty(t) ==
    /\ Idle(t) /\ loc[t] = None /\ HasRoom
    /\ LET g == New_Locimp(Init_locales(h)) IN Set(t, [g EXCEPT !.xparent = @ \union {g.made}], g.made)

(* _Construct on a new implementation: a bad name leaves nothing. *)
Construct(t, g, name, cat) ==
    LET i == g.made
        l == Locinfo_cat(crt, name)
        ok == [Makeloc(Init_locales(g), l, i, cat, None) EXCEPT !.mask[i] = cat, !.name[i] = name]
    IN  /\ \/ h' = ok /\ loc' = [loc EXCEPT ![t] = i]
           \/ h' = Decref(Init_locales(g), i) /\ UNCHANGED loc
        /\ crt' = Locinfo_dtor(l)
        /\ UNCHANGED old

ByName(t, name, cat) ==
    /\ Idle(t) /\ loc[t] = None /\ HasRoom
    /\ Construct(t, New_Locimp(h), name, cat)
Replaced(t, u, name, cat) ==
    /\ Idle(t) /\ loc[t] = None /\ loc[u] # None /\ HasRoom
    /\ Construct(t, Locimp_ctor(h, loc[u]), name, cat)

(* locale(const locale&, const locale&, category), locale(const locale&,   *)
(* const _Facet* )                                                         *)
Combined(t, u, other, cat) ==
    /\ Idle(t) /\ loc[t] = None /\ loc[u] # None /\ other # None /\ HasRoom
    /\ LET g == Locimp_ctor(h, loc[u])
           i == g.made
           l == Locinfo(crt, "C")
           both == Locinfo_Addcats(Locinfo_Addcats(l, h.name[loc[u]]), h.name[other])
       IN  /\ h' = [Makeloc(g, l, i, cat, other) EXCEPT
                       !.mask[i] = h.mask[loc[u]] \union h.mask[other], !.name[i] = both.name]
           /\ loc' = [loc EXCEPT ![t] = i]
           /\ crt' = Locinfo_dtor(both)
    /\ UNCHANGED old
WithFacet(t, u) ==
    /\ Idle(t) /\ loc[t] = None /\ loc[u] # None /\ HasRoom
    /\ LET g == Locimp_ctor(h, loc[u])
           i == g.made
       IN  Set(t, [Locimp_Addfac(g, i, "user", i) EXCEPT !.mask[i] = {}, !.name[i] = "*"], i)

Copy(t, u) ==
    /\ Idle(t) /\ loc[t] = None /\ loc[u] # None
    /\ Set(t, Incref(h, loc[u]), loc[u])
Assign(t, u) ==
    /\ Idle(t) /\ loc[t] # None /\ loc[u] \notin {None, loc[t]}
    /\ Set(t, Incref(Decref(h, loc[t]), loc[u]), loc[u])
Destroy(t) ==
    /\ Idle(t) /\ loc[t] # None
    /\ Set(t, Decref(h, loc[t]), None)
Use_facet(t, d) ==
    /\ Idle(t) /\ loc[t] # None /\ h.global # None
    /\ Set(t, use_facet(h, loc[t], d).g, loc[t])

(* locale::global: the old one is taken before the lock, and again in it. *)
Global_old(t) ==
    /\ Idle(t) /\ loc[t] # None /\ h.made < MaxImps
    /\ LET g == Init_locales(h) IN
       /\ h' = Incref(g, g.global)
       /\ old' = [old EXCEPT ![t] = g.global]
    /\ UNCHANGED <<loc, crt>>

(* ... and is returned, into the thread's locale. *)
Global_set(t) ==
    /\ ~Idle(t)
    /\ LET g == IF h.global = loc[t] THEN h
                ELSE Incref(Setgloballocale(Decref(h, h.global), loc[t]), loc[t])
       IN  h' = Decref(g, loc[t])
    /\ crt' = IF h.global = loc[t] \/ h.name[loc[t]] = "*" THEN crt
              ELSE [c \in All |-> IF c \in h.mask[loc[t]] THEN h.name[loc[t]] ELSE crt[c]]
    /\ loc' = [loc EXCEPT ![t] = old[t]]
    /\ old' = [old EXCEPT ![t] = None]

tidy_global(g) == Setgloballocale(Decref(g, g.global), None)
Tidy_facets(g) ==
    [FoldLeft(LAMBDA a, d : IF d \in g.lazy THEN FacetDecref(a, Lazy, d) ELSE a, g, IdSeq) EXCEPT
        !.lazy = {}]

(* The end of the program.  What runs after that only copies and gives up  *)
(* the locales it holds.                                                   *)
Exit ==
    /\ h.global # None /\ \A t \in Threads : Idle(t)
    /\ h' = [Tidy_facets(tidy_global(h)) EXCEPT !.made = MaxImps]
    /\ UNCHANGED <<loc, old, crt>>

-----------------------------------------------------------------------------
Categories == {{"numeric"}, All}

Make(t) ==
    \/ \E name \in Names, cat \in Categories : ByName(t, name, cat)
    \/ \E u \in Threads \ {t} :
          \/ \E name \in Names, cat \in Categories : Replaced(t, u, name, cat)
          \/ \E other \in {loc[u], h.classic, h.global}, cat \in Categories : Combined(t, u, other, cat)
          \/ WithFacet(t, u) \/ Copy(t, u) \/ Assign(t, u)

Next ==
    \/ \E t \in Threads :
          \/ Default(t) \/ Classic(t) \/ Empty(t) \/ Make(t) \/ Destroy(t)
          \/ Use_facet(t, "wctype") \/ Global_old(t) \/ Global_set(t)
    \/ Exit

Spec == Init /\ [][Next]_vars

-----------------------------------------------------------------------------
Held(i) == Cardinality({t \in Threads : loc[t] = i}) + Cardinality({t \in Threads : old[t] = i})
One(b) == IF b THEN 1 ELSE 0

(* Every implementation and every facet lives exactly as long as something *)
(* refers to it: its count is the number of locale objects, of the global  *)
(* and the classic locale, and of the vectors and the lazy list it is in,  *)
(* also when a constructor fails, a facet is replaced or two threads       *)
(* change the global locale at once.                                       *)
CountsExact ==
    /\ \A i \in Imps : h.refs[i] = Held(i) + One(h.global = i) + One(h.classic = i)
    /\ \A o \in Makers, d \in Ids :
          h.frefs[<<o, d>>] = Cardinality({i \in Imps : h.vec[i][d] = o}) + One(o = Lazy /\ d \in h.lazy)

=============================================================================
