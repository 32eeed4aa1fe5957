------------------------------- MODULE Btree --------------------------------
(***************************************************************************)
(* The index file of a table (tabobj/tbbtbtx/btree): several orders, each  *)
(* a B-tree of pages, the lists of their free pages, and a cursor.         *)
(*                                                                         *)
(* A call is one step: writers hold the write lock of page 0               *)
(* (_db_header_read(.t.)), readers its read lock (R_LOCKFILE), and every   *)
(* call reads its pages from the file (mpool.cpp keeps none).  A change by *)
(* another process is a change that leaves this cursor alone.  The header  *)
(* and the resource page are left out, pages are numbered from 1.  Keys    *)
(* have one size, so room is counted in entries.                           *)
(***************************************************************************)
EXTENDS Integers, Sequences, SequencesExt, FiniteSets

CONSTANTS
  Ord,          (* names of the orders, "recno" always exists              *)
  Key,          (* keys, as numbers                                        *)
  Cap,          (* entries of a page                                       *)
  Half,         (* entries that stay on the left page of a split           *)
  Uses,         (* what the programs may do with the file, see use         *)
  MaxPage       (* bound: pages of the largest file                        *)

ASSUME OrdAssumption == "recno" \in Ord
ASSUME KeyAssumption == Key \subseteq Nat \ {0}
ASSUME UsesAssumption == Uses \subseteq [keys : [Ord -> SUBSET Key], seek : BOOLEAN,
                                         data : Nat, pages : 0..MaxPage]
ASSUME CapAssumption == /\ Cap \in Nat /\ Half \in Nat /\ Cap >= 3
                        /\ Cap <= 2 * Half /\ 2 * Half <= Cap + 2

VARIABLES
  file,         (* the pages, the global free list, the table of orders    *)
  cursor,       (* bt_cursor, with the order it was set in                 *)
  use           (* the keys put into each order, whether the cursor is     *)
                (* used, bounds on data pages and pages; never changes     *)

vars == <<file, cursor, use>>

(* linkpg chains all pages of an order, from lastpage to the first root;   *)
(* nextpg and prevpg chain the pages of a level, and nextpg the free ones. *)
Blank == [flags |-> "leaf", ents |-> <<>>, prev |-> 0, next |-> 0, link |-> 0]

Entry(k, n) == [key |-> k, pg |-> n]

Unset == [ord |-> "recno", pg |-> 0, index |-> 0, key |-> 0]

-----------------------------------------------------------------------------
(* Pages are taken from the free pages of the order, then from those of    *)
(* deleted orders, then from the end of the file.                          *)

Fresh(f, o) ==
  IF f.order[o].lastfree # 0 THEN f.order[o].lastfree
  ELSE IF f.free # 0 THEN f.free
  ELSE Len(f.page) + 1

(* Mutant: a page of a deleted order is not added to the chain of its new  *)
(* order.                                                                  *)
newxUnchained(f, o) ==
  LET ord == f.order[o] IN
  IF ord.lastfree # 0
  THEN [f EXCEPT !.order[o].lastfree = f.page[ord.lastfree].next]
  ELSE IF f.free # 0
  THEN [f EXCEPT !.free = f.page[f.free].link]
  ELSE [f EXCEPT !.page = Append(@, [Blank EXCEPT !.link = ord.lastpage]),
                 !.order[o].lastpage = Len(f.page) + 1]

newx(f, o) ==
  LET ord == f.order[o] IN
  IF ord.lastfree # 0
  THEN [f EXCEPT !.order[o].lastfree = f.page[ord.lastfree].next]
  ELSE IF f.free # 0
  THEN [f EXCEPT !.free = f.page[f.free].link,
                 !.page[f.free].link = ord.lastpage,
                 !.order[o].lastpage = f.free]
  ELSE [f EXCEPT !.page = Append(@, [Blank EXCEPT !.link = ord.lastpage]),
                 !.order[o].lastpage = Len(f.page) + 1]

(* A data page or the root of a new order: not from the order's list.      *)
FreshData(f) == IF f.free # 0 THEN f.free ELSE Len(f.page) + 1

new(f, flags) ==
  IF f.free # 0
  THEN [f EXCEPT !.free = f.page[f.free].link, !.page[f.free] = [Blank EXCEPT !.flags = flags]]
  ELSE [f EXCEPT !.page = Append(@, [Blank EXCEPT !.flags = flags])]

free(f, o, n) ==
  [f EXCEPT !.page[n] = [@ EXCEPT !.flags = "free", !.ents = <<>>, !.prev = 0,
                                  !.next = f.order[o].lastfree],
            !.order[o].lastfree = n]

-----------------------------------------------------------------------------
(* Search.  Indices count from 0, as in the code.                          *)

At(p, i) == p.ents[i + 1]

(* The left-most entry of a level is less than any key.                    *)
cmp(k, p, i) == IF i = 0 /\ p.prev = 0 /\ p.flags # "leaf" THEN 1 ELSE k - At(p, i).key

BinarySearch(p, k) ==
  LET bs[base \in 0..Len(p.ents), lim \in 0..Len(p.ents)] ==
        LET i == base + lim \div 2 IN
        IF lim = 0 THEN [exact |-> FALSE, index |-> base]
        ELSE IF cmp(k, p, i) = 0 THEN [exact |-> TRUE, index |-> i]
        ELSE IF cmp(k, p, i) > 0 THEN bs[i + 1, (lim - 1) \div 2]
        ELSE bs[base, lim \div 2]
  IN bs[0, Len(p.ents)]

(* The entry to follow on a page that is not a leaf.                       *)
Child(p, k) ==
  LET b == BinarySearch(p, k) IN
  IF b.exact \/ b.index = 0 THEN b.index ELSE b.index - 1

(* stack: the pages passed on the way, with the entries followed.          *)
search(f, o, k) ==
  LET down[n \in 1..Len(f.page)] ==
        LET p == f.page[n] b == BinarySearch(p, k) i == Child(p, k) IN
        IF p.flags = "leaf"
        THEN [stack |-> <<>>, pg |-> n, index |-> b.index, exact |-> b.exact]
        ELSE LET d == down[At(p, i).pg]
             IN [d EXCEPT !.stack = <<[pg |-> n, index |-> i]>> \o @]
  IN down[f.order[o].root]

-----------------------------------------------------------------------------
(* Insertion.                                                              *)

InsertIn(f, n, skip, e) == [f EXCEPT !.page[n].ents = InsertAt(@, skip + 1, e)]

(* Page n cannot hold e at skip: split it to the right.                    *)
bt_page(f0, o, n, skip, e) ==
  LET r == Fresh(f0, o)
      f == newx(f0, o)
      h == f.page[n]
      all == InsertAt(h.ents, skip + 1, e)
      right == [h EXCEPT !.link = f.page[r].link, !.prev = n]
  IN IF h.next = 0 /\ skip = Len(h.ents)
     THEN [f |-> [f EXCEPT !.page[n].next = r,
                           !.page[r] = [right EXCEPT !.ents = <<e>>]],
           r |-> r]
     ELSE LET g == IF h.next = 0 THEN f ELSE [f EXCEPT !.page[h.next].prev = r]
          IN [f |-> [g EXCEPT
                       !.page[n] = [@ EXCEPT !.ents = SubSeq(all, 1, Half), !.next = r],
                       !.page[r] = [right EXCEPT !.ents = SubSeq(all, Half + 1, Len(all))]],
              r |-> r]

(* The root stays where it is: both halves go to new pages.                *)
bt_root(f0, o, n, skip, e) ==
  LET l == Fresh(f0, o)
      f1 == newx(f0, o)
      r == Fresh(f1, o)
      f == newx(f1, o)
      h == f.page[n]
      all == InsertAt(h.ents, skip + 1, e)
      right == SubSeq(all, Half + 1, Len(all))
  IN [f |-> [f EXCEPT
               !.page[l] = [flags |-> h.flags, ents |-> SubSeq(all, 1, Half),
                            prev |-> 0, next |-> r, link |-> @.link],
               !.page[r] = [flags |-> h.flags, ents |-> right,
                            prev |-> l, next |-> 0, link |-> @.link],
               !.page[n] = [@ EXCEPT !.flags = "node",
                                     !.ents = <<Entry(0, l), Entry(right[1].key, r)>>]],
      r |-> r]

SplitPage(f, o, n, skip, e) ==
  IF n = f.order[o].root THEN bt_root(f, o, n, skip, e) ELSE bt_page(f, o, n, skip, e)

(* Mutant: the entry of the right page goes before that of the left one.   *)
ToParentBefore(o, parent, s) ==
  LET h == s.f.page[parent.pg]
      e == Entry(s.f.page[s.r].ents[1].key, s.r)
      t == SplitPage(s.f, o, parent.pg, parent.index, e)
  IN IF s.done THEN s
     ELSE IF Len(h.ents) < Cap
     THEN [s EXCEPT !.f = InsertIn(@, parent.pg, parent.index, e), !.done = TRUE]
     ELSE [s EXCEPT !.f = t.f, !.r = t.r]

(* Up the stack: every split puts an entry for the right page into the     *)
(* parent, one after the entry that was followed.                          *)
ToParent(o, parent, s) ==
  LET h == s.f.page[parent.pg]
      skip == parent.index + 1
      e == Entry(s.f.page[s.r].ents[1].key, s.r)
      t == SplitPage(s.f, o, parent.pg, skip, e)
  IN IF s.done THEN s
     ELSE IF Len(h.ents) < Cap
     THEN [s EXCEPT !.f = InsertIn(@, parent.pg, skip, e), !.done = TRUE]
     ELSE [s EXCEPT !.f = t.f, !.r = t.r]

split(f, o, n, skip, e, stack) ==
  LET t == SplitPage(f, o, n, skip, e)
      up(parent, s) == ToParent(o, parent, s)
  IN FoldRight(up, stack, [f |-> t.f, r |-> t.r, done |-> FALSE]).f

put(f, o, k, s) ==
  IF Len(f.page[s.pg].ents) < Cap
  THEN InsertIn(f, s.pg, s.index, Entry(k, 0))
  ELSE split(f, o, s.pg, s.index, Entry(k, 0), s.stack)

-----------------------------------------------------------------------------
(* Deletion.                                                               *)

(* Mutant: only the page on the right is told that n leaves.               *)
relinkRight(f, n) ==
  LET h == f.page[n] IN
  IF h.next = 0 THEN f ELSE [f EXCEPT !.page[h.next].prev = h.prev]

relink(f, n) ==
  LET h == f.page[n]
      g == IF h.next = 0 THEN f ELSE [f EXCEPT !.page[h.next].prev = h.prev]
  IN IF h.prev = 0 THEN g ELSE [g EXCEPT !.page[h.prev].next = h.next]

(* The entry of a page that was deleted leaves the parent; a parent left   *)
(* without entries is deleted too, the root becomes an empty leaf.         *)
FromParent(o, parent, s) ==
  IF s.done THEN s
  ELSE IF Len(s.f.page[parent.pg].ents) > 1
  THEN [f |-> [s.f EXCEPT !.page[parent.pg].ents = RemoveAt(@, parent.index + 1)], done |-> TRUE]
  ELSE IF parent.pg = s.f.order[o].root
  THEN [f |-> [s.f EXCEPT !.page[parent.pg].ents = <<>>, !.page[parent.pg].flags = "leaf"],
        done |-> TRUE]
  ELSE [s EXCEPT !.f = free(relink(@, parent.pg), o, parent.pg)]

pdelete(f, o, n, stack) ==
  LET up(parent, s) == FromParent(o, parent, s)
      g == FoldRight(up, stack, [f |-> f, done |-> FALSE]).f
  IN IF n = f.order[o].root THEN g ELSE free(relink(g, n), o, n)

(* Mutant: a page is deleted when it has one entry left.                   *)
deleteEarly(f, o, s) ==
  LET g == [f EXCEPT !.page[s.pg].ents = RemoveAt(@, s.index + 1)]
  IN IF Len(g.page[s.pg].ents) <= 1 THEN pdelete(g, o, s.pg, s.stack) ELSE g

delete(f, o, s) ==
  LET g == [f EXCEPT !.page[s.pg].ents = RemoveAt(@, s.index + 1)]
  IN IF g.page[s.pg].ents = <<>> THEN pdelete(g, o, s.pg, s.stack) ELSE g

-----------------------------------------------------------------------------
(* Reading in sequence.  A position has pg 0 when there is no such key.    *)

Pos(n, i) == [pg |-> n, index |-> i]
None == Pos(0, 0)

Leftmost(f, o) ==
  LET down[n \in 1..Len(f.page)] ==
        IF f.page[n].flags = "leaf" THEN n ELSE down[f.page[n].ents[1].pg]
  IN down[f.order[o].root]

Rightmost(f, o) ==
  LET down[n \in 1..Len(f.page)] ==
        IF f.page[n].flags = "leaf" THEN n ELSE down[Last(f.page[n].ents).pg]
  IN down[f.order[o].root]

FirstPos(f, o) ==
  LET n == Leftmost(f, o) IN IF f.page[n].ents = <<>> THEN None ELSE Pos(n, 0)

LastPos(f, o) ==
  LET n == Rightmost(f, o)
  IN IF f.page[n].ents = <<>> THEN None ELSE Pos(n, Len(f.page[n].ents) - 1)

gteq(f, o, k) ==
  LET s == search(f, o, k) IN
  IF s.exact \/ s.index < Len(f.page[s.pg].ents) THEN Pos(s.pg, s.index)
  ELSE IF f.page[s.pg].next = 0 THEN None ELSE Pos(f.page[s.pg].next, 0)

After(f, p) ==
  IF p.index + 1 < Len(f.page[p.pg].ents) THEN Pos(p.pg, p.index + 1)
  ELSE IF f.page[p.pg].next = 0 THEN None ELSE Pos(f.page[p.pg].next, 0)

Before(f, p) ==
  LET h == f.page[p.pg] IN
  IF p.index > 0 THEN Pos(p.pg, p.index - 1)
  ELSE IF h.prev = 0 THEN None ELSE Pos(h.prev, Len(f.page[h.prev].ents) - 1)

InPlace(f, c) ==
  /\ f.page[c.pg].flags = "leaf"
  /\ c.index < Len(f.page[c.pg].ents)
  /\ At(f.page[c.pg], c.index).key = c.key

(* Mutant: steps over the key that was found, which may be another one.    *)
NextPosOver(f, c) ==
  LET p == gteq(f, c.ord, c.key) IN
  IF InPlace(f, c) THEN After(f, c)
  ELSE IF p = None THEN p ELSE After(f, p)

(* The cursor's key may have moved or gone: then it is searched again.     *)
NextPos(f, c) ==
  LET p == gteq(f, c.ord, c.key) IN
  IF InPlace(f, c) THEN After(f, c)
  ELSE IF p = None \/ At(f.page[p.pg], p.index).key # c.key THEN p
  ELSE After(f, p)

PrevPos(f, c) ==
  LET p == gteq(f, c.ord, c.key) IN
  IF InPlace(f, c) THEN Before(f, c)
  ELSE IF p = None THEN LastPos(f, c.ord)
  ELSE Before(f, p)

-----------------------------------------------------------------------------
Init ==
  /\ file = [page |-> <<Blank>>, free |-> 0,
             order |-> [o \in Ord |-> IF o = "recno"
                                      THEN [root |-> 1, lastpage |-> 1, lastfree |-> 0]
                                      ELSE [root |-> 0, lastpage |-> 0, lastfree |-> 0]]]
  /\ cursor = Unset
  /\ use \in Uses

Exists(o) == file.order[o].root # 0

(* A key that is in the order is refused, a key that is not is not deleted.*)
(* No caller of _db_put asks for the cursor to be set.                     *)
Put(o, k) ==
  LET s == search(file, o, k) f == put(file, o, k, s) IN
  /\ Exists(o)
  /\ ~s.exact
  /\ Len(f.page) <= use.pages
  /\ file' = f
  /\ UNCHANGED <<cursor, use>>

Delete(o, k) ==
  LET s == search(file, o, k) IN
  /\ Exists(o)
  /\ s.exact
  /\ file' = delete(file, o, s)
  /\ UNCHANGED <<cursor, use>>

(* The end of __bt_seq: the cursor is set, or lost.                        *)
SetCur(o, p) ==
  /\ cursor' = IF p = None THEN Unset
               ELSE [ord |-> o, pg |-> p.pg, index |-> p.index,
                     key |-> At(file.page[p.pg], p.index).key]
  /\ UNCHANGED <<file, use>>

Seek(o, k) == Exists(o) /\ use.seek /\ SetCur(o, gteq(file, o, k))
SeekFirst(o) == Exists(o) /\ use.seek /\ SetCur(o, FirstPos(file, o))
SeekLast(o) == Exists(o) /\ use.seek /\ SetCur(o, LastPos(file, o))

StepNext == cursor.pg # 0 /\ SetCur(cursor.ord, NextPos(file, cursor))
StepPrev == cursor.pg # 0 /\ SetCur(cursor.ord, PrevPos(file, cursor))

(* An order is created with an empty root.                                 *)
CreateOrder(o) ==
  LET n == FreshData(file) IN
  /\ ~Exists(o) /\ use.keys[o] # {}
  /\ n <= use.pages
  /\ file' = [new(file, "leaf") EXCEPT
                !.order[o] = [root |-> n, lastpage |-> n, lastfree |-> 0]]
  /\ UNCHANGED <<cursor, use>>

(* All pages of the order go to the global free list.  tabDropIndex has    *)
(* moved the cursor to another order before.                               *)
DeleteOrder(o) ==
  LET ord == file.order[o] IN
  /\ Exists(o) /\ o # "recno" /\ cursor.ord # o
  /\ file' = [file EXCEPT !.page[ord.root].link = file.free,
                          !.free = ord.lastpage,
                          !.order[o] = [root |-> 0, lastpage |-> 0, lastfree |-> 0]]
  /\ UNCHANGED <<cursor, use>>

(* A page of records: __bt_append, when the last one is full.              *)
NewDataPage ==
  /\ Cardinality({n \in 1..Len(file.page) : file.page[n].flags = "data"}) < use.data
  /\ FreshData(file) <= use.pages
  /\ file' = new(file, "data")
  /\ UNCHANGED <<cursor, use>>

Next ==
  \/ \E o \in Ord : \/ \E k \in use.keys[o] : Put(o, k) \/ Delete(o, k) \/ Seek(o, k)
                    \/ SeekFirst(o) \/ SeekLast(o)
                    \/ CreateOrder(o) \/ DeleteOrder(o)
  \/ StepNext \/ StepPrev \/ NewDataPage

Spec == Init /\ [][Next]_vars

-----------------------------------------------------------------------------
(* Properties.                                                             *)

Page == 1..Len(file.page)
Orders == {o \in Ord : Exists(o)}

(* Type invariant: the file holds well-formed pages within the bounds.     *)
TypeOK ==
  /\ file.page \in Seq([flags : {"leaf", "node", "free", "data"},
                        ents : Seq([key : Key \cup {0}, pg : 0..MaxPage]),
                        prev : 0..MaxPage, next : 0..MaxPage, link : 0..MaxPage])
  /\ Len(file.page) <= MaxPage
  /\ \A n \in Page : Len(file.page[n].ents) <= Cap
  /\ file.free \in 0..MaxPage
  /\ file.order \in [Ord -> [root : 0..MaxPage, lastpage : 0..MaxPage, lastfree : 0..MaxPage]]
  /\ cursor \in [ord : Ord, pg : 0..MaxPage, index : 0..Cap, key : Key \cup {0}]
  /\ use \in Uses

(* The pages of the levels of an order, from left to right.                *)
Children(ns) == FlattenSeq([i \in 1..Len(ns) |->
                  [j \in 1..Len(file.page[ns[i]].ents) |-> file.page[ns[i]].ents[j].pg]])

Level(o) ==
  LET level[d \in 0..MaxPage] ==
        IF d = 0 THEN <<file.order[o].root>>
        ELSE LET above == level[d - 1] IN
             IF above # <<>> /\ file.page[above[1]].flags = "node"
             THEN Children(above) ELSE <<>>
  IN level

Reached(o) == LET level == Level(o) IN UNION {ToSet(level[d]) : d \in 0..MaxPage}

Under ==
  LET under[n \in Page] ==
        LET p == file.page[n] IN
        IF p.flags # "node" THEN {p.ents[i].key : i \in 1..Len(p.ents)}
        ELSE UNION {under[p.ents[i].pg] : i \in 1..Len(p.ents)}
  IN under

Keys(o) == IF Exists(o) THEN Under[file.order[o].root] ELSE {}

(* The keys of a leaf ascend, and those below an entry of an inner page    *)
(* lie between its key and that of the next entry: what the binary search  *)
(* of __bt_search needs to find the way, after any splits and deletions.   *)
Ordered ==
  LET under == Under IN
  \A o \in Orders : \A n \in Reached(o) :
    LET p == file.page[n] IN
    IF p.flags = "leaf"
    THEN \A i \in 1..Len(p.ents) - 1 : p.ents[i].key < p.ents[i + 1].key
    ELSE \A i \in 1..Len(p.ents) :
           /\ (i = 1 /\ p.prev = 0) \/ \A k \in under[p.ents[i].pg] : k >= p.ents[i].key
           /\ i = Len(p.ents) \/ \A k \in under[p.ents[i].pg] : k < p.ents[i + 1].key

(* The pages of each level, of which all are leaves or none, are chained   *)
(* in the order of their keys in both directions, no page but the root is  *)
(* empty: a scan meets every leaf, and prevpg tells the left-most page.    *)
LevelsChained ==
  \A o \in Orders :
    LET level == Level(o) IN
    \A d \in 0..MaxPage : \A i \in 1..Len(level[d]) :
      LET ns == level[d] p == file.page[ns[i]] IN
      /\ p.prev = IF i = 1 THEN 0 ELSE ns[i - 1]
      /\ p.next = IF i = Len(ns) THEN 0 ELSE ns[i + 1]
      /\ p.flags \in {"leaf", "node"} /\ p.flags = file.page[ns[1]].flags
      /\ p.ents # <<>> \/ d = 0

(* The sequence of pages from n along a link, cut where it would repeat.   *)
Chain(n, link(_)) ==
  LET chain[i \in 0..MaxPage] ==
        IF i = 0 THEN <<n>>
        ELSE LET c == chain[i - 1] IN
             IF Last(c) = 0 THEN c ELSE Append(c, link(Last(c)))
  IN chain[MaxPage]

ByLink(n) == Chain(n, LAMBDA m : file.page[m].link)
ByNext(n) == Chain(n, LAMBDA m : file.page[m].next)

(* No page is lost or used twice: every page is a data page, in the global *)
(* free list or in the chain of one order, and the chain of an order is    *)
(* made of its tree and of its free pages, although splits, deletions,     *)
(* dropped orders and data pages move pages between these lists.           *)
PagesAccounted ==
  LET lists == {ByLink(file.order[o].lastpage) : o \in Orders} \cup {ByLink(file.free)}
      data == {n \in Page : file.page[n].flags = "data"}
  IN /\ \A c \in lists : Last(c) = 0
     /\ \A c, e \in lists : c # e => ToSet(c) \cap ToSet(e) = {0}
     /\ UNION {ToSet(c) : c \in lists} \cup data = Page \cup {0}
     /\ data \cap UNION {ToSet(c) : c \in lists} = {}
     /\ \A o \in Orders :
          LET fs == ByNext(file.order[o].lastfree) IN
          /\ Last(fs) = 0
          /\ Reached(o) \cap ToSet(fs) = {}
          /\ Reached(o) \cup ToSet(fs) = ToSet(ByLink(file.order[o].lastpage))
          /\ \A n \in ToSet(fs) \ {0} : file.page[n].flags = "free"

(* The file implements sets of keys with a cursor: every call adds,        *)
(* removes or finds some key, and splits and deletions do not show.        *)
Abs == INSTANCE KeySet WITH
         keys <- [o \in Ord |-> Keys(o)],
         cur <- [ord |-> cursor.ord, key |-> cursor.key]

ImplementsKeySet == Abs!Spec

(* And it is the key it should be: a key is found where the search of      *)
(* bt_gteq looks, and a cursor whose key has moved to another page, has    *)
(* gone, or whose page is in use for something else goes on from the key.  *)
CallsImplement ==
  [][/\ \A o \in Ord : \A k \in use.keys[o] :
          /\ Put(o, k) => Abs!Put(o, k)
          /\ Delete(o, k) => Abs!Delete(o, k)
          /\ Seek(o, k) => Abs!Seek(o, k)
     /\ \A o \in Ord : /\ SeekFirst(o) => Abs!First(o)
                       /\ SeekLast(o) => Abs!Last(o)
     /\ StepNext => Abs!NextKey
     /\ StepPrev => Abs!PrevKey]_vars
=============================================================================
