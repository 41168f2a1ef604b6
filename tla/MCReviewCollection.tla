------------------------- MODULE MCReviewCollection -------------------------
(* ReviewCollection on small instances.  A review is <<id, version>>. *)
EXTENDS ReviewCollection

a == <<"a", 1>>
a2 == <<"a", 2>>
b == <<"b", 1>>
c == <<"c", 1>>
m == <<"m", 1>>
n == <<"n", 1>>

\* The first route has two pages of two.  While it is read, one review comes on top of it and
\* the last one leaves, so that b is met on both pages; then the total grows and falls again,
\* and a is edited.  The second route has one page.
Moving == <<<<[total |-> 3, pages |-> <<<<a, b>>, <<c>>>>],
              [total |-> 3, pages |-> <<<<n, a>>, <<b>>>>],
              [total |-> 4, pages |-> <<<<m, n>>, <<a2, b>>>>],
              [total |-> 3, pages |-> <<<<n, b>>, <<a2>>>>]>>,
            <<[total |-> 1, pages |-> <<<<a>>>>]>>>>

\* Two routes of one page each, read on two days: the first may have another review on the
\* second day, the second has none.
Short == <<<<[total |-> 1, pages |-> <<<<a>>>>], [total |-> 1, pages |-> <<<<n>>>>]>>,
           <<[total |-> 0, pages |-> <<<<>>>>]>>>>

\* Workers differ in name only.
Names == Permutations(Worker)
=============================================================================
