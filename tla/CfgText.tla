------------------------------ MODULE CfgText ------------------------------
(***************************************************************************)
(* Attribute objects of a configuration entry as text in a table column:   *)
(* "params" and "model" hold one object, "data_src" a list of them.        *)
(* SqliteDbSvr.cpp writes key ":" value "|" for each attribute and "&"     *)
(* after each object; CCfgMng::SpliteStrFun cuts the text with strtok,     *)
(* which skips empty pieces.                                               *)
(*                                                                         *)
(* A text is a sequence of words and separators, a value the same: one     *)
(* word, nothing, or words with separators between them, which the code    *)
(* does not escape.  An object is a function from attribute names.         *)
(***************************************************************************)
EXTENDS Integers, Sequences, SequencesExt

CONSTANT Words   \* the words, in the order in which JSON objects list their attributes

Separators == {":", "|", "&"}
Symbol == Range(Words) \cup Separators
NoAttributes == [k \in {} |-> <<>>]

\* A name is a word, and JSON lists every attribute once.
ASSUME WordsAssumption ==
    /\ Words \in Seq(Range(Words)) /\ Range(Words) \cap Separators = {}
    /\ \A i, j \in DOMAIN Words : Words[i] = Words[j] => i = j

\* common_cmmobj::Strtok: the pieces between separators, without the empty ones.
Closed(r) == IF r.cur = <<>> THEN r ELSE [out |-> Append(r.out, r.cur), cur |-> <<>>]
Cut(r, w, sep) == IF w = sep THEN Closed(r) ELSE [out |-> r.out, cur |-> Append(r.cur, w)]
Strtok(text, sep) ==
    LET cut[i \in 0..Len(text)] ==
          IF i = 0 THEN [out |-> <<>>, cur |-> <<>>] ELSE Cut(cut[i - 1], text[i], sep)
    IN  Closed(cut[Len(text)]).out

\* The attributes of one object.
Attribute(obj, k) == IF k \notin DOMAIN obj THEN <<>> ELSE <<k, ":">> \o obj[k] \o <<"|">>
ParseSubElmFun(obj) == FlattenSeq([i \in 1..Len(Words) |-> Attribute(obj, Words[i])])

\* A column: every object is followed by "&".
Column(objs) == FlattenSeq([i \in 1..Len(objs) |-> ParseSubElmFun(objs[i]) \o <<"&">>])

\* jTmp[name] = value: of "name:value:more" the rest is dropped, of "name" or
\* "name:" the value is empty.
Assign(obj, piece) ==
    LET s == Strtok(piece, ":")
    IN  IF s = <<>> THEN obj
        ELSE [k \in DOMAIN obj \cup {s[1][1]} |->
                 IF k # s[1][1] THEN obj[k] ELSE IF Len(s) = 1 THEN <<>> ELSE s[2]]

Object(pieces) ==
    LET obj[i \in 0..Len(pieces)] ==
          IF i = 0 THEN NoAttributes ELSE Assign(obj[i - 1], pieces[i])
    IN  obj[Len(pieces)]

SpliteStrFun(text) ==
    LET groups == Strtok(text, "&")
    IN  [i \in DOMAIN groups |-> Object(Strtok(groups[i], "|"))]

\* What LoadRuntimeSysCfgTableInDb makes of a column: a list, or its first object.
Loaded(isList, text) ==
    LET objs == SpliteStrFun(text)
    IN  IF isList THEN objs
        ELSE IF objs = <<>> THEN <<NoAttributes>> ELSE <<objs[1]>>

\* A body: one object, or a list of them.
IsObject(obj) == DOMAIN obj \subseteq Range(Words) /\ obj \in [DOMAIN obj -> Seq(Symbol)]
IsBody(isList, objs) ==
    /\ objs \in Seq(Range(objs)) /\ \A i \in DOMAIN objs : IsObject(objs[i])
    /\ ~isList => Len(objs) = 1

\* No value contains a separator, and no object of a list is without attributes.
Clean(isList, objs) ==
    \A i \in DOMAIN objs :
        /\ isList => DOMAIN objs[i] # {}
        /\ \A k \in DOMAIN objs[i] : Range(objs[i][k]) \cap Separators = {}
=============================================================================
