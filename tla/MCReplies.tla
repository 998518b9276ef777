------------------------------ MODULE MCReplies -------------------------------
(* A small instance of Replies for TLC. *)
EXTENDS Replies

\* Both tags begin alike, and each has two characters, so that it can be split;
\* the body of a call is a character of the opening tag.
MCOpen == <<"<", "o">>
MCClose == <<"<", "/">>
MCCharacters == {"<", "o", "/", " "}
MCCalls == {<<"o">>}

\* Two of which one is completed inside the other, with an empty one and a repeat.
NestedStops == <<<<"o", "o">>, << >>, <<"/", "o", "o", "/">>, <<"o", "o">>>>
\* Two of which one is the end of the other, and ends as an opening tag does.
EndingStops == <<<<"<", "o">>, <<"/", "<", "o">>>>
\* One that begins as a closing tag does.
TagStop == <<<<"<", "/", "o">>>>

MCRequests ==
  [stops : {<< >>, NestedStops, TagStop}, parsing : {TRUE}]
    \cup [stops : {EndingStops}, parsing : {FALSE}]
==============================================================================
