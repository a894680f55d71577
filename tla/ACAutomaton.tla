---------------------------- MODULE ACAutomaton ----------------------------
(***************************************************************************)
(* The client's word filter (ACAutomaton.cc): a trie of forbidden words,   *)
(* the fail pointers that build() computes breadth first, and filter(),    *)
(* which follows them along a text and stars out every occurrence.  A node *)
(* is named by the path that leads to it, so the root is the empty path    *)
(* and node->next[ch] is Append(node, ch).  The client inserts its words,  *)
(* builds once, and filters every text it receives.  One round of a loop   *)
(* is a step.                                                              *)
(***************************************************************************)
EXTENDS Naturals, Sequences, SequencesExt

CONSTANTS
  Alphabet,    \* characters (char32_t)
  Star,        \* the character '*'
  Null,        \* nullptr
  MaxWords,    \* bound: words inserted
  MaxWordLen,  \* bound: length of a word
  MaxTextLen   \* bound: length of a text

Words == BoundedSeq(Alphabet, MaxWordLen)
Texts == BoundedSeq(Alphabet, MaxTextLen)
Root  == <<>>

ASSUME ACAssumption ==
  /\ Star \notin Alphabet /\ Null \notin Words
  /\ MaxWords \in Nat /\ MaxWordLen \in Nat /\ MaxTextLen \in Nat

VARIABLES
  words,    \* history: the words inserted
  nodes,    \* the nodes of the trie
  length,   \* Node::length; it is 0 exactly for the nodes without isEnd
  fail,     \* Node::fail
  phase,    \* "build", "walk" (its inner loop), "filter"; "insert", "ready"
  queue,    \* q in build()
  todo,     \* the children of node that build() has not come to
  child,    \* it.second in build()
  node,     \* node in build() and in filter()
  ptr,      \* p in build(), temp in filter()
  text,     \* utf32_str in filter()
  pos,      \* characters of it consumed
  matches,  \* matches in filter(): pairs of first and last position
  result    \* what the last filter() returned

trieVars   == <<words, nodes, length>>
buildVars  == <<queue, todo, child>>
filterVars == <<text, pos, matches, result>>
acVars == <<words, nodes, length, fail, phase, queue, todo, child, node, ptr,
            text, pos, matches, result>>

(* Every variable has its type; in particular filter() is always at a node *)
(* of the trie and never at a null pointer.                                *)
ACTypeOK ==
  /\ words \subseteq Words
  /\ Root \in nodes /\ nodes \subseteq Words
  /\ length \in [nodes -> 0..MaxWordLen]
  /\ fail \in [nodes -> nodes \cup {Null}]
  /\ phase \in {"insert", "build", "walk", "ready", "filter"}
  /\ queue \in Seq(nodes) /\ todo \subseteq nodes /\ child \in nodes
  /\ node \in nodes
  /\ ptr \in nodes \cup {Null} /\ (phase = "filter" => ptr # Null)
  /\ text \in Texts
  /\ pos \in 0..Len(text)
  /\ matches \subseteq (1..Len(text)) \X (1..Len(text))
  /\ result \in Seq(Alphabet \cup {Star})

(* The constructor: a root without children.                               *)
ACInit ==
  /\ words = {}
  /\ nodes = {Root}
  /\ length = [n \in {Root} |-> 0]
  /\ fail = [n \in {Root} |-> Null]
  /\ phase = "insert"
  /\ queue = <<>> /\ todo = {} /\ child = Root /\ node = Root /\ ptr = Root
  /\ text = <<>> /\ pos = 0 /\ matches = {} /\ result = <<>>

Children(n) == {m \in nodes : m # Root /\ Front(m) = n}
-----------------------------------------------------------------------------
(* insert(): the missing nodes of the path are created, and the last one   *)
(* is marked.  The empty word is ignored.                                  *)
Insert(word) ==
  /\ phase = "insert"
  /\ word # <<>>
  /\ Cardinality(words \cup {word}) <= MaxWords
  /\ words' = words \cup {word}
  /\ nodes' = nodes \cup Prefixes(word)
  /\ length' = [n \in nodes' |-> IF n = word THEN Len(word)
                                 ELSE IF n \in nodes THEN length[n] ELSE 0]
  /\ fail' = [n \in nodes' |-> IF n \in nodes THEN fail[n] ELSE Null]
  /\ UNCHANGED <<phase, buildVars, node, ptr, filterVars>>
-----------------------------------------------------------------------------
(***************************************************************************)
(* build()                                                                 *)
(***************************************************************************)

(* It starts at the root.                                                  *)
StartBuild ==
  /\ phase = "insert"
  /\ fail' = [fail EXCEPT ![Root] = Null]
  /\ queue' = <<Root>>
  /\ phase' = "build"
  /\ UNCHANGED <<trieVars, todo, child, node, ptr, filterVars>>

(* The outer loop, when a node has no more children, takes the next one.   *)
BuildNode ==
  /\ phase = "build"
  /\ todo = {} /\ queue # <<>>
  /\ node' = Head(queue)
  /\ queue' = Tail(queue)
  /\ todo' = Children(Head(queue))
  /\ UNCHANGED <<trieVars, fail, phase, child, ptr, filterVars>>

(* A child gets its fail pointer and is queued.                            *)
SetFail(c, f) ==
  /\ fail' = [fail EXCEPT ![c] = f]
  /\ queue' = Append(queue, c)
  /\ todo' = todo \ {c}
  /\ phase' = "build"
  /\ UNCHANGED <<trieVars, child, node, ptr, filterVars>>

(* The children come in the order of a hash map, so in any.  Those of the  *)
(* root fail to the root.                                                  *)
RootChild(c) ==
  /\ phase = "build"
  /\ c \in todo /\ node = Root
  /\ SetFail(c, Root)

(* Another node's child: the inner loop begins at node->fail.              *)
StartWalk(c) ==
  /\ phase = "build"
  /\ c \in todo /\ node # Root
  /\ child' = c
  /\ ptr' = fail[node]
  /\ phase' = "walk"
  /\ UNCHANGED <<trieVars, fail, queue, todo, node, filterVars>>

(* Mutant of WalkUp: only the first fail pointer is tried.                 *)
WalkUpOnce ==
  /\ phase = "walk"
  /\ ptr # Null /\ Append(ptr, Last(child)) \notin nodes
  /\ ptr' = Null
  /\ UNCHANGED <<trieVars, fail, phase, buildVars, node, filterVars>>

(* p has no child for the character: its fail pointer is next.             *)
WalkUp ==
  /\ phase = "walk"
  /\ ptr # Null /\ Append(ptr, Last(child)) \notin nodes
  /\ ptr' = fail[ptr]
  /\ UNCHANGED <<trieVars, fail, phase, buildVars, node, filterVars>>

(* It has one, which is the fail pointer sought; or p is null.             *)
WalkFound ==
  /\ phase = "walk"
  /\ ptr # Null /\ Append(ptr, Last(child)) \in nodes
  /\ SetFail(child, Append(ptr, Last(child)))

WalkEnds == phase = "walk" /\ ptr = Null /\ SetFail(child, Root)

(* The queue is empty: build() returns, and its variables are gone.        *)
BuildDone ==
  /\ phase = "build"
  /\ todo = {} /\ queue = <<>>
  /\ phase' = "ready"
  /\ child' = Root /\ node' = Root /\ ptr' = Root
  /\ UNCHANGED <<trieVars, fail, queue, todo, filterVars>>
-----------------------------------------------------------------------------
(***************************************************************************)
(* filter().  Its inner loop over temp has ended when temp is the root.    *)
(***************************************************************************)

StartFilter(sentence) ==
  /\ phase = "ready"
  /\ text' = sentence
  /\ pos' = 0 /\ node' = Root /\ matches' = {} /\ result' = <<>>
  /\ phase' = "filter"
  /\ UNCHANGED <<trieVars, fail, buildVars, ptr>>

(* A next character, and where it leads from n.                            *)
Reading   == phase = "filter" /\ ptr = Root /\ pos < Len(text)
Target(n) == Append(n, text[pos + 1])

(* Mutant of FilterUp: the root's fail pointer is followed too.            *)
FilterUpNull ==
  /\ Reading
  /\ Target(node) \notin nodes
  /\ node' = fail[node]
  /\ UNCHANGED <<trieVars, fail, phase, buildVars, ptr, filterVars>>

(* No child for the character: follow the fail pointer.                    *)
FilterUp ==
  /\ Reading
  /\ Target(node) \notin nodes /\ node # Root
  /\ node' = fail[node]
  /\ UNCHANGED <<trieVars, fail, phase, buildVars, ptr, filterVars>>

(* The character is consumed.                                              *)
FilterMove ==
  /\ Reading
  /\ Target(node) \in nodes \/ node = Root
  /\ node' = IF Target(node) \in nodes THEN Target(node) ELSE Root
  /\ ptr' = node'
  /\ pos' = pos + 1
  /\ UNCHANGED <<trieVars, fail, phase, buildVars, text, matches, result>>

(* The word that ends here at temp, if there is one.                       *)
Match == IF length[ptr] # 0 THEN {<<pos - length[ptr] + 1, pos>>} ELSE {}

(* Mutant of MatchUp: the shorter words that end here are left out.        *)
MatchUpOnce ==
  /\ phase = "filter" /\ ptr # Root
  /\ matches' = matches \cup Match
  /\ ptr' = Root
  /\ UNCHANGED <<trieVars, fail, phase, buildVars, node, text, pos, result>>

(* The words that end here lie on the way of the fail pointers.            *)
MatchUp ==
  /\ phase = "filter" /\ ptr # Root
  /\ matches' = matches \cup Match
  /\ ptr' = fail[ptr]
  /\ UNCHANGED <<trieVars, fail, phase, buildVars, node, text, pos, result>>

(* The end of the text: star out the matches and return.                   *)
FilterDone ==
  /\ phase = "filter" /\ ptr = Root /\ pos = Len(text)
  /\ result' = [i \in 1..Len(text) |->
                  IF \E m \in matches : m[1] <= i /\ i <= m[2] THEN Star ELSE text[i]]
  /\ phase' = "ready"
  /\ pos' = 0 /\ node' = Root /\ matches' = {}
  /\ UNCHANGED <<trieVars, fail, buildVars, ptr, text>>
-----------------------------------------------------------------------------
ACNext ==
  \/ \E w \in Words : Insert(w)
  \/ StartBuild \/ BuildNode \/ \E c \in nodes : RootChild(c) \/ StartWalk(c)
  \/ WalkUp \/ WalkFound \/ WalkEnds \/ BuildDone
  \/ \E t \in Texts : StartFilter(t)
  \/ FilterUp \/ FilterMove \/ MatchUp \/ FilterDone

ACSpec == ACInit /\ [][ACNext]_acVars
-----------------------------------------------------------------------------
(***************************************************************************)
(* Properties                                                              *)
(***************************************************************************)

(* Of the suffixes of s in S, the longest.                                 *)
LongestSuffixIn(s, S) ==
  CHOOSE t \in S : /\ IsSuffix(t, s)
                   /\ \A u \in S : IsSuffix(u, s) => Len(u) <= Len(t)

(* build() gives a node, as soon as it gives it a fail pointer at all, the *)
(* right one: the longest proper suffix of its path that the trie has, in  *)
(* whatever order the hash maps yield the children.  When it has returned, *)
(* every node but the root has one, so filter() follows no null pointer.   *)
FailIsLongestSuffix ==
  /\ \A n \in nodes : fail[n] # Null => fail[n] = LongestSuffixIn(n, nodes \ {n})
  /\ phase \in {"ready", "filter"} => \A n \in nodes \ {Root} : fail[n] # Null

(* Position i of t lies inside an occurrence of a word of W.               *)
Covered(t, W, i) ==
  \E a \in 1..i, b \in i..Len(t) : SubSeq(t, a, b) \in W

(* filter() stars out exactly the characters inside an occurrence of an    *)
(* inserted word, overlapping, nested and repeated occurrences included,   *)
(* and leaves the others and the length of the text alone.                 *)
MasksExactlyTheWords ==
  phase = "ready" =>
     result = [i \in 1..Len(text) |-> IF Covered(text, words, i) THEN Star ELSE text[i]]
=============================================================================
