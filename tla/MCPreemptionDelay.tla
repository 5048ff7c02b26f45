--------------------------- MODULE MCPreemptionDelay ---------------------------
(***************************************************************************)
(* State graphs of small programs on a cache of two sets.  Blocks 0, 2, 4  *)
(* and 6 map to set 0, blocks 1 and 3 to set 1.  As InsensitiveGraph       *)
(* builds it a basic block has a vertex where it is entered, one where it  *)
(* is left and its accesses on the edge between them; StateSensitiveGraph  *)
(* has several vertices at either place.                                   *)
(***************************************************************************)
EXTENDS PreemptionDelay, TLC

\* A loop whose body is a branch with two arms.
Loop == <<0, 1>> :> << >> @@ <<1, 2>> :> <<0, 1>> @@ <<2, 3>> :> << >>
     @@ <<3, 4>> :> <<2>> @@ <<4, 5>> :> << >> @@ <<4, 7>> :> << >>
     @@ <<5, 6>> :> <<4, 3>> @@ <<6, 9>> :> << >>
     @@ <<7, 8>> :> <<1>> @@ <<8, 9>> :> << >>
     @@ <<9, 10>> :> <<0>> @@ <<10, 3>> :> << >> @@ <<10, 11>> :> << >>
     @@ <<11, 12>> :> <<2, 1>> @@ <<12, 0>> :> << >> @@ <<0, 0>> :> << >>

\* Three blocks in a row: one that is used again, and one in between.
Straight == <<0, 1>> :> << >> @@ <<1, 2>> :> <<0>> @@ <<2, 3>> :> << >>
         @@ <<3, 4>> :> <<2>> @@ <<4, 5>> :> << >> @@ <<5, 6>> :> <<0>>
         @@ <<6, 0>> :> << >> @@ <<0, 0>> :> << >>

\* A single access: it evicts one block of a set at most.
Short == <<0, 1>> :> << >> @@ <<1, 2>> :> <<0>> @@ <<2, 0>> :> << >>

\* One block that is its own successor.
SelfLoop == <<0, 1>> :> << >> @@ <<1, 2>> :> <<0, 2, 4>> @@ <<2, 1>> :> << >>
         @@ <<2, 0>> :> << >> @@ <<0, 0>> :> << >>

\* As StateSensitiveGraph builds it a block may be entered in two states and
\* left in one.
TwoStates == <<0, 1>> :> << >> @@ <<0, 2>> :> << >> @@ <<1, 3>> :> <<0, 2>>
          @@ <<2, 3>> :> <<0>> @@ <<3, 2>> :> << >> @@ <<3, 0>> :> << >>
          @@ <<0, 0>> :> << >>

\* Two such blocks, but the loop passes a vertex with one edge in each direction.
LateLoop == <<0, 1>> :> << >> @@ <<0, 2>> :> << >> @@ <<1, 3>> :> <<0, 2>>
         @@ <<2, 3>> :> <<1>> @@ <<3, 4>> :> << >> @@ <<4, 5>> :> <<0, 1>>
         @@ <<5, 3>> :> << >> @@ <<5, 0>> :> << >> @@ <<0, 0>> :> << >>

SplitPrograms == {TwoStates}
Programs == {Loop, Straight, Short, SelfLoop, LateLoop} \cup SplitPrograms
=============================================================================
