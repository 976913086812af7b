----------------------------- MODULE Dictionary -----------------------------
(***************************************************************************)
(* Words, wordlists and the search order (make_word.c, find_impl.c,        *)
(* search.fth).  A word lies in memory behind the words made before it and *)
(* links to the word that was the newest of its wordlist then; a wordlist  *)
(* is a cell in the body of its word that holds its newest word.  The      *)
(* search order is an array: wordlists up to the first null, and CURRENT   *)
(* in the last cell.                                                       *)
(*                                                                         *)
(* A word takes one place of memory here.  An address is its place.        *)
(***************************************************************************)
EXTENDS Integers, SequencesExt

CONSTANTS
  Names,       \* names of words
  WL_SO_MAX,   \* cells of the search order: 16 in config.m4
  Top          \* places in memory (a bound)
ASSUME SizesAssumption == WL_SO_MAX \in 4 .. 16 /\ Top \in Nat \ {0}

VARIABLES
  wl_search_order,   \* its cells; 0 is null
  mem,               \* the words, those given back included
  here,              \* the last place in use
  next_word,         \* the word make_word made last
  state,             \* compiling?
  entered,           \* history: the words entered into each wordlist
  spoilt             \* history: which contracts of these words were broken
vars == <<wl_search_order, mem, here, next_word, state, entered, spoilt>>

FORTH == 1
NoName == ""
ASSUME NamesAssumption == NoName \notin Names
Cells == 0 .. WL_SO_MAX - 1
CURRENT == wl_search_order[WL_SO_MAX - 1]
Listed == WL_SO_MAX - 2     \* what WL:COUNT counts to
Alive == 1 .. here
Lists == {a \in Alive : mem[a].kind = "list"}
Markers == {a \in Alive : mem[a].kind = "marker"}

(* Memory given back: its words are left out when no list leads to them (a bound). *)
Free == [name |-> NoName, kind |-> "free", link |-> 0, newest |-> 0]
Word(name, kind, link) == [name |-> name, kind |-> kind, link |-> link, newest |-> 0]

(***************************************************************************)
(* FIND and what it walks along.                                           *)
(***************************************************************************)
(* The words of a list in memory m, or Top + 1 of them when the links turn *)
(* in a circle.                                                            *)
Chain(m, l) ==
  LET word(words) == IF words = <<>> THEN m[l].newest ELSE m[Last(words)].link
      walk[n \in 0 .. Top + 1] ==
        IF n = 0 THEN <<>>
        ELSE IF word(walk[n - 1]) = 0 THEN walk[n - 1]
        ELSE Append(walk[n - 1], word(walk[n - 1]))
  IN walk[Top + 1]
(* Wordlists that are searched: up to the first null, CURRENT not among them. *)
Searched ==
  LET n == CHOOSE k \in 0 .. WL_SO_MAX - 1 :
             /\ k = WL_SO_MAX - 1 \/ wl_search_order[k] = 0
             /\ \A i \in 0 .. k - 1 : wl_search_order[i] # 0
  IN [i \in 1 .. n |-> wl_search_order[i - 1]]
Named(m, words, name) == {i \in DOMAIN words : m[words[i]].name = name}
(* The first word of the name in a list, or null. *)
Match(m, l, name) ==
  LET words == Chain(m, l)
  IN IF Named(m, words, name) = {} THEN 0 ELSE words[Min(Named(m, words, name))]
FINDIn(m, name) ==
  LET has == {i \in DOMAIN Searched : Match(m, Searched[i], name) # 0}
  IN IF has = {} THEN 0 ELSE Match(m, Searched[Min(has)], name)
(* A mutant: the search goes on behind the first list that has a match. *)
FINDLast(name) ==
  LET has == {i \in DOMAIN Searched : Match(mem, Searched[i], name) # 0}
  IN IF has = {} THEN 0 ELSE Match(mem, Searched[Max(has)], name)
FIND(name) == FINDIn(mem, name)

(***************************************************************************)
(* Definitions.                                                            *)
(***************************************************************************)
LinkOf == mem[CURRENT].newest
(* make_word: a header behind the last, linked to the newest word now.     *)
Made(name, kind) == [mem EXCEPT ![here + 1] = Word(name, kind, LinkOf)]
(* forward_word: w becomes the newest word of CURRENT, if it has a name.   *)
Forwarded(m, w) == IF m[w].name = NoName THEN m ELSE [m EXCEPT ![CURRENT].newest = w]
Enter(w) == entered' = [entered EXCEPT ![CURRENT] = @ \cup {w}]

make_word ==
  /\ here < Top
  /\ CURRENT # 0
  /\ here' = here + 1
  /\ next_word' = here'
  /\ UNCHANGED wl_search_order

(* CREATE, VARIABLE, CONSTANT, VOCABULARY, WORDLIST and MARKER.            *)
create(name, kind) ==
  /\ make_word
  /\ mem' = Forwarded(Made(name, kind), here')
  /\ Enter(here')
  /\ spoilt' = IF state = 1 THEN spoilt \cup {"mixed"} ELSE spoilt
  /\ UNCHANGED state
CREATE == \E n \in Names : create(n, "word")
VOCABULARY == \E n \in Names : create(n, "list")
MARKER == \E n \in Names : create(n, "marker")

colon == \E n \in Names \cup {NoName} :
  /\ make_word
  /\ mem' = Made(n, "word")
  /\ state' = 1
  /\ spoilt' = IF state = 1 THEN spoilt \cup {"mixed"} ELSE spoilt
  /\ UNCHANGED entered

semi_colon ==
  /\ state = 1
  /\ CURRENT # 0
  /\ mem' = Forwarded(mem, next_word)
  /\ state' = 0
  /\ IF mem[next_word].name = NoName THEN UNCHANGED entered ELSE Enter(next_word)
  /\ UNCHANGED <<wl_search_order, here, next_word, spoilt>>

(* SYNONYM looks for its second name between HIDE and REVEAL, which take   *)
(* the newest word of the first list of the search order away and put it   *)
(* back: when there is no such name it is not put back.                    *)
Hidden(m) == LET l == wl_search_order[0] IN [m EXCEPT ![l].newest = IF @ = 0 THEN 0 ELSE m[@].link]
SYNONYM == \E n, of \in Names :
  /\ state = 0 /\ wl_search_order[0] # 0
  /\ make_word
  /\ LET created == Forwarded(Made(n, "word"), here')
         fails == FINDIn(Hidden(created), of) = 0
     IN /\ created[wl_search_order[0]].newest # 0
        /\ mem' = IF fails THEN Hidden(created) ELSE created
        /\ spoilt' = IF fails THEN spoilt \cup {"hidden"} ELSE spoilt
  /\ Enter(here')
  /\ UNCHANGED state

(***************************************************************************)
(* The search order (search.fth).                                          *)
(***************************************************************************)
Cell(i, l) == wl_search_order' = [wl_search_order EXCEPT ![i] = l]
WLCOUNT == IF Len(Searched) < Listed THEN Len(Searched) ELSE Listed
(* A mutant: what was there is not cleared first. *)
StoredOver(s) == [i \in Cells |-> IF i < Len(s) THEN s[i + 1] ELSE wl_search_order[i]]
(* n wordlists into the array: the cells WL:COUNT counts are cleared first. *)
Stored(s) == [i \in Cells |-> IF i < Len(s) THEN s[i + 1] ELSE IF i < Listed THEN 0 ELSE wl_search_order[i]]
GET_ORDER == SubSeq(Searched, 1, WLCOUNT)
(* CURRENT is the business of a definition that is not ended.              *)
Ordered(current) ==
  spoilt' = spoilt \cup (IF state = 1 /\ current # CURRENT THEN {"mixed"} ELSE {})
Rest == UNCHANGED <<mem, here, next_word, state, entered>>

SetOrder(s) ==
  /\ wl_search_order' = Stored(s)
  /\ spoilt' = spoilt \cup (IF Len(s) > Listed THEN {"overrun"} ELSE {})
  /\ Rest
(* What SET-ORDER is given (a bound): none, or any wordlist and FORTH up to *)
(* as often as there are cells.                                            *)
Orders == {<<>>} \cup {[i \in 1 .. n |-> IF i = 1 THEN l ELSE FORTH] : n \in 1 .. WL_SO_MAX, l \in Lists}
SET_ORDER == \E s \in Orders : SetOrder(s)
(* A wordlist executed takes the place of the first; FORTH by WL:SET.      *)
Execute(l) ==
  /\ GET_ORDER # <<>>
  /\ wl_search_order' = Stored(<<l>> \o Tail(GET_ORDER))
  /\ UNCHANGED spoilt /\ Rest
DoVocabulary == \E l \in Lists \ {FORTH} : Execute(l)
WL_SET == Cell(0, FORTH) /\ UNCHANGED spoilt /\ Rest
ONLY_ ==
  /\ wl_search_order' = Stored(<<FORTH>>)
  /\ UNCHANGED spoilt /\ Rest
Moved(order) == [i \in Cells |-> IF i \in 1 .. WLCOUNT THEN order[i - 1] ELSE order[i]]
ALSO ==
  /\ WLCOUNT \in 1 .. Listed - 1
  /\ wl_search_order' = Moved(wl_search_order)
  /\ UNCHANGED spoilt /\ Rest
PREVIOUS ==
  /\ WLCOUNT > 1
  /\ wl_search_order' = [i \in Cells |-> IF i < WLCOUNT - 1 THEN wl_search_order[i + 1]
                                         ELSE IF i = WLCOUNT - 1 THEN 0 ELSE wl_search_order[i]]
  /\ UNCHANGED spoilt /\ Rest
DEFINITIONS ==
  /\ wl_search_order[0] # 0
  /\ Cell(WL_SO_MAX - 1, wl_search_order[0])
  /\ Ordered(wl_search_order[0]) /\ Rest
SetCurrent(l) == Cell(WL_SO_MAX - 1, l) /\ Ordered(l) /\ Rest
SET_CURRENT == \E l \in Lists : SetCurrent(l)

(***************************************************************************)
(* A marker runs: memory from its place on is given back, and the lists of *)
(* the search order lose the words there.  Those that are not in the order *)
(* keep them, and neither the order nor CURRENT is changed.                *)
(***************************************************************************)
(* A mutant: the marker's own word is kept. *)
CutLate(l, mark) ==
  LET kept == {i \in DOMAIN Chain(mem, l) : Chain(mem, l)[i] \in 1 .. mark + 1}
  IN IF kept = {} THEN 0 ELSE Chain(mem, l)[Min(kept)]
Cut(l, mark) ==
  LET kept == {i \in DOMAIN Chain(mem, l) : Chain(mem, l)[i] \in 1 .. mark}
  IN IF kept = {} THEN 0 ELSE Chain(mem, l)[Min(kept)]
DoMarker == \E a \in Markers :
  LET mark == a - 1
      cut == ToSet(GET_ORDER)
      keeps == {l \in Lists : l <= mark /\ l \notin cut /\ mem[l].newest > mark}
      gone == {l \in Lists : l > mark /\ l \in ToSet(Searched) \cup {CURRENT}}
  IN /\ \A l \in cut : Len(Chain(mem, l)) <= Top
     /\ here' = mark
     /\ spoilt' = spoilt \cup (IF keeps \cup gone # {} \/ (state = 1 /\ next_word > mark) THEN {"marker"} ELSE {})
     /\ mem' = [l \in DOMAIN mem |-> IF l \in cut /\ l <= mark THEN [mem[l] EXCEPT !.newest = Cut(l, mark)]
                                      ELSE IF l > mark /\ spoilt' = {} THEN Free ELSE mem[l]]
     /\ entered' = [l \in 1 .. Top |-> IF l <= mark THEN {w \in entered[l] : w <= mark} ELSE {}]
     /\ UNCHANGED <<wl_search_order, next_word, state>>

Init ==
  /\ wl_search_order = [i \in Cells |-> IF i \in {0, WL_SO_MAX - 1} THEN FORTH ELSE 0]
  /\ mem = [[a \in 1 .. Top |-> Free] EXCEPT ![FORTH] = [Word("FORTH", "list", 0) EXCEPT !.newest = FORTH]]
  /\ here = FORTH
  /\ next_word = 0
  /\ state = 0
  /\ entered = [l \in 1 .. Top |-> IF l = FORTH THEN {FORTH} ELSE {}]
  /\ spoilt = {}
(* A program is not followed after a contract was broken that nothing is   *)
(* promised without, or a second one (a bound).                            *)
Followed == spoilt \in {{}, {"mixed"}, {"hidden"}}
Next ==
  /\ Followed
  /\ \/ CREATE \/ VOCABULARY \/ MARKER \/ colon \/ semi_colon \/ SYNONYM
     \/ SET_ORDER \/ DoVocabulary \/ WL_SET \/ ONLY_ \/ ALSO \/ PREVIOUS \/ DEFINITIONS \/ SET_CURRENT
     \/ DoMarker
Spec == Init /\ [][Next]_vars

(***************************************************************************)
(* Properties.                                                             *)
(***************************************************************************)
Order == INSTANCE SearchOrder WITH Limit <- Listed, Forth <- FORTH, so <- Searched, current <- CURRENT

(* The array is the sequence of wordlists the words of the search order    *)
(* promise, and no word but those changes what is searched or where        *)
(* definitions go (search.fth, find_impl.c:16): as long as SET-ORDER was   *)
(* never given more wordlists than WL:COUNT counts, for which it does not  *)
(* look.                                                                   *)
Promised ==
  /\ UNCHANGED <<mem, here, state>>
  /\ ALSO => Order!Also
  /\ PREVIOUS => Order!Previous
  /\ ONLY_ => Order!Only
  /\ DEFINITIONS => Order!Definitions
  /\ WL_SET => Order!Forth_
  /\ \A l \in Lists : /\ Execute(l) => Order!Vocabulary(l)
                      /\ SetCurrent(l) => Order!SetCurrent(l)
                      /\ \A s \in {<<>>, <<l>>, <<l, FORTH>>} : SetOrder(s) => Order!SetOrder(s)
OrderImplemented == Order!Init /\ [][Promised \/ "overrun" \in spoilt']_<<Searched, CURRENT>>

(* FIND gives the newest word of the name in the first wordlist that has   *)
(* one, counting every definition that was ended and no marker forgot (the *)
(* newest lies last in memory):                                            *)
(* make_word reads the link of a colon definition when it begins and       *)
(* forward_word enters it when it ends.  It is so as long as no word is    *)
(* made and CURRENT is not changed between : and ; no SYNONYM failed, and  *)
(* what "marker" and "overrun" stand for did not happen.                   *)
Expected(name) ==
  LET of(l) == {w \in entered[l] : mem[w].name = name}
      has == {i \in DOMAIN Searched : of(Searched[i]) # {}}
  IN IF has = {} THEN 0 ELSE Max(of(Searched[Min(has)]))
FindsNewest == spoilt = {} => \A name \in Names \cup {"FORTH"} : FIND(name) = Expected(name)

(* A search ends and finds no word whose memory was given back, whatever   *)
(* else happened: a list leads to a word in use, and every word to one     *)
(* made earlier.  The marker breaks it for a wordlist that is not in the   *)
(* search order when it runs (search.fth:194): its next definition may     *)
(* link to itself.                                                         *)
SearchEnds ==
  spoilt \cap {"marker", "overrun"} = {} =>
    /\ \A l \in Lists : mem[l].newest <= here
    /\ \A w \in Alive : mem[w].link < w
=============================================================================
