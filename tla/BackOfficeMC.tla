----------------------------- MODULE BackOfficeMC -----------------------------
(***************************************************************************)
(* A small back office: two shifts of one cashier with an entry and a      *)
(* sale, a driver with two deliveries, two rounds and two settlements, and *)
(* two payroll runs over two adjustments.  One behaviour works on one of   *)
(* the scenarios.                                                          *)
(***************************************************************************)
EXTENDS BackOffice, TLC

CONSTANTS w1, w2, s1, s2, e1, e2, x1, c1, d1, d2, t1, t2, k1, k2, r1,
          a1, a2, p1, p2, month, today, m1, m2, u1, u2

MCThings ==
  {s1, s2, e1, e2, x1, d1, d2, t1, t2, k1, k2, a1, a2, p1, p2, month, today}

MCScenarios ==
  {{s1, s2, e1, x1}, {s1, s2, e1, today}, {s1, d1, t1, today},
   {d1, d2, t1, t2}, {d1, t1, k1, k2}, {a1, a2, p1, p2}}

MCEmployeeOf == (a1 :> m1) @@ (a2 :> m2)

Symmetric == Permutations(Workers)

=============================================================================
