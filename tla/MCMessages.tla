------------------------------ MODULE MCMessages ------------------------------
(***************************************************************************)
(* Messages for TLC: each demo, with the ints at the ends of their range,  *)
(* strings that are empty, look like tags and keywords, or do not fit into *)
(* the read buffer; of these, some look like a response where they are cut *)
(***************************************************************************)
EXTENDS Messages

Name(ch) == <<ch, 35>>

MCMethodName ==
  [PrintToCout |-> Name(1), PrintToString |-> Name(2),
   SetIntegerValue |-> Name(3), SetStringValue |-> Name(4)]

MCClass == <<67, 99>>

Ints == {0, 52, -1, MaxInt, -MaxInt - 1}

Fill(n) == [k \in 1 .. n |-> 105]

\* The rest of a cut response may look like: a response to request 1 that is
\* complete, or lacks a byte of the id; a created object; a string of length
\* -1, as a value, with one byte of it missing, as the name of a class, and
\* behind an id; a string of length -7, and one that is too long.
Rests ==
  {<<35, 114, 105, 1, 0, 0, 0, 98, 49>>, <<35, 114, 105, 1, 0, 0>>,
   <<35>> \o SerializeString(MCClass) \o <<35, 105>> \o SerializeInt(300),
   <<115, 105, 255, 255, 255, 255>>, <<115, 105, 255, 255, 255>>,
   <<35, 115, 105, 255, 255, 255, 255>>,
   <<35, 114, 105, 1, 0, 0, 0, 115, 105, 255, 255, 255, 255>>,
   <<115, 105, 249, 255, 255, 255>>, <<115, 105, 105, 105, 105, 105>>}

\* With a buffer of 30 bytes the string of an answer is cut before its 18th
\* byte and before its 48th, that of a retrieved object before its 7th.
Strings ==
  {<<>>, <<105, 35>>} \cup {Fill(17) \o r : r \in Rests}
    \cup {Fill(47) \o <<35, 114, 105, 1, 0, 0, 0, 98, 49>>,
          Fill(6) \o <<35, 114, 105, 1, 0, 0, 0, 98, 49>>}
Handles == {0, 300}

Plains ==
  {Value("int", v) : v \in Ints} \cup {Value("string", v) : v \in Strings}
    \cup {Value("double", <<105, 115, 0, 0, 0, 255, 35, 114>>)}

MCInputs ==
  {Command("value", 0, <<v>>) : v \in Plains}
    \cup {Command("create", 0, <<>>)}
    \cup {Command("create", 0, <<Value("int", v)>>) : v \in Ints}
    \cup {Command("create", 0, <<Value("int", 52), Value("string", v)>>) : v \in Strings}
    \cup {Command(op, h, <<>>) : op \in {"PrintToCout", "PrintToString", "get"}, h \in Handles}
    \cup {Command("SetIntegerValue", h, <<Value("int", v)>>) : v \in Ints, h \in Handles}
    \cup {Command("SetStringValue", h, <<Value("string", v)>>) : v \in Strings, h \in Handles}

MCIds     == {1, 65539}
MCObjects == [handle : {300}, ival : {0, -1}, str : Strings]
MCGarbage == {0, 35, 49, 98, 100, 105, 115, 255}
=============================================================================
