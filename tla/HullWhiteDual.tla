----------------------------- MODULE HullWhiteDual -----------------------------
(***************************************************************************)
(* Values, gradients and Hessians of a swap under Hull-White, in closed    *)
(* form (models/hull_white_dual.rs and the deterministic functions of      *)
(* api.rs and smoke.rs).                                                   *)
(*                                                                         *)
(* A number is an element of the prime field of Prime elements: an         *)
(* identity between rational expressions that holds for the reals holds    *)
(* there too, and is decided without rounding.  The exponential is any     *)
(* function ExpOf, its own derivative; no identity of it is used.          *)
(*                                                                         *)
(* The pricers of ShortRateModels are instantiated with four arithmetics:  *)
(* plain numbers; Dual2 (value, first and half the second derivative in    *)
(* one parameter); HyperDual (value, two first derivatives and the mixed   *)
(* one); and jets, which carry the whole gradient and Hessian at once and  *)
(* are the reference: the autodiff of the tensor library computes their    *)
(* gradient, nothing in the code computes their Hessian.                   *)
(***************************************************************************)
EXTENDS Integers, Sequences

CONSTANTS Prime,     \* the number of numbers
          ExpOf      \* the exponential, a function on the numbers

-----------------------------------------------------------------------------
(* Plain numbers.                                                          *)

Num == 0 .. (Prime - 1)
Reciprocal == [x \in Num \ {0} |-> CHOOSE y \in Num : (x * y) % Prime = 1]

x ++ y == (x + y) % Prime
x -- y == (x - y) % Prime
x ** y == (x * y) % Prime
x // y == (x * Reciprocal[y]) % Prime

PlainLift(x) == x % Prime
PlainExp(x) == ExpOf[x]
PlainPower(x, n) == IF n >= 0 THEN (x ^ n) % Prime ELSE (Reciprocal[x] ^ (-n)) % Prime

Plain == INSTANCE ShortRateModels WITH Lift <- PlainLift, Plus <- ++, Minus <- --, Times <- **,
                                       Over <- //, Exp <- PlainExp, Power <- PlainPower

-----------------------------------------------------------------------------
(* Dual2: d2 is half the second derivative.                                *)

Dual2(value, d1, d2) == [value |-> value, d1 |-> d1, d2 |-> d2]

Dual2Variable(x) == Dual2(x, 1, 0)
Dual2Constant(x) == Dual2(x % Prime, 0, 0)
SecondDerivative(x) == 2 ** x.d2

Dual2Add(f, g) == Dual2(f.value ++ g.value, f.d1 ++ g.d1, f.d2 ++ g.d2)
Dual2Sub(f, g) == Dual2(f.value -- g.value, f.d1 -- g.d1, f.d2 -- g.d2)

Dual2Mul(f, g) == Dual2(f.value ** g.value,
                        (f.d1 ** g.value) ++ (f.value ** g.d1),
                        (f.d2 ** g.value) ++ (f.d1 ** g.d1) ++ (f.value ** g.d2))

Dual2Div(f, g) ==
    LET h0 == f.value // g.value
        h1 == (f.d1 -- (h0 ** g.d1)) // g.value
        h2 == (f.d2 -- (h0 ** g.d2) -- (h1 ** g.d1)) // g.value
    IN  Dual2(h0, h1, h2)

\* Mutant: d2 as if it were the second derivative itself.
Dual2Exp_Unhalved(f) ==
    LET v == PlainExp(f.value)
    IN  Dual2(v, v ** f.d1, v ** (f.d2 ++ (f.d1 ** f.d1)))

Dual2Exp(f) ==
    LET v == PlainExp(f.value)
    IN  Dual2(v, v ** f.d1, v ** (f.d2 ++ ((f.d1 ** f.d1) // 2)))

Dual2Power(f, n) ==
    LET slope == PlainLift(n) ** PlainPower(f.value, n - 1)
        bend == PlainLift(n * (n - 1)) ** PlainPower(f.value, n - 2)
    IN  Dual2(PlainPower(f.value, n), slope ** f.d1,
              (slope ** f.d2) ++ (((bend // 2) ** f.d1) ** f.d1))

OfDual2 == INSTANCE ShortRateModels WITH Lift <- Dual2Constant, Plus <- Dual2Add, Minus <- Dual2Sub,
                                         Times <- Dual2Mul, Over <- Dual2Div, Exp <- Dual2Exp,
                                         Power <- Dual2Power

-----------------------------------------------------------------------------
(* HyperDual: dxy is the mixed derivative itself.                          *)

HyperDual(value, dx, dy, dxy) == [value |-> value, dx |-> dx, dy |-> dy, dxy |-> dxy]

HyperX(x) == HyperDual(x, 1, 0, 0)
HyperY(x) == HyperDual(x, 0, 1, 0)
HyperConstant(x) == HyperDual(x % Prime, 0, 0, 0)

HyperAdd(f, g) == HyperDual(f.value ++ g.value, f.dx ++ g.dx, f.dy ++ g.dy, f.dxy ++ g.dxy)
HyperSub(f, g) == HyperDual(f.value -- g.value, f.dx -- g.dx, f.dy -- g.dy, f.dxy -- g.dxy)

HyperMul(f, g) == HyperDual(f.value ** g.value,
                            (f.dx ** g.value) ++ (f.value ** g.dx),
                            (f.dy ** g.value) ++ (f.value ** g.dy),
                            (f.dxy ** g.value) ++ (f.value ** g.dxy)
                                ++ (f.dx ** g.dy) ++ (f.dy ** g.dx))

HyperDiv(f, g) ==
    LET h0 == f.value // g.value
        hx == (f.dx -- (h0 ** g.dx)) // g.value
        hy == (f.dy -- (h0 ** g.dy)) // g.value
        hxy == (f.dxy -- (h0 ** g.dxy) -- (hx ** g.dy) -- (hy ** g.dx)) // g.value
    IN  HyperDual(h0, hx, hy, hxy)

HyperExp(f) ==
    LET v == PlainExp(f.value)
    IN  HyperDual(v, v ** f.dx, v ** f.dy, v ** (f.dxy ++ (f.dx ** f.dy)))

HyperPower(f, n) ==
    LET slope == PlainLift(n) ** PlainPower(f.value, n - 1)
        bend == PlainLift(n * (n - 1)) ** PlainPower(f.value, n - 2)
    IN  HyperDual(PlainPower(f.value, n), slope ** f.dx, slope ** f.dy,
                  (slope ** f.dxy) ++ ((bend ** f.dx) ** f.dy))

OfHyper == INSTANCE ShortRateModels WITH Lift <- HyperConstant, Plus <- HyperAdd, Minus <- HyperSub,
                                         Times <- HyperMul, Over <- HyperDiv, Exp <- HyperExp,
                                         Power <- HyperPower

-----------------------------------------------------------------------------
(* Jets: the value, the gradient and the Hessian in all the parameters,    *)
(* by the rules of the calculus.                                           *)

Params == {"a", "b", "sigma", "eta", "r0"}

Jet(v, G(_), H(_, _)) == [v |-> v, g |-> [p \in Params |-> G(p)],
                          h |-> [p \in Params |-> [q \in Params |-> H(p, q)]]]

\* The function with value, first and second derivative (v, d, dd), at x.
Through(x, v, d, dd) ==
    Jet(v, LAMBDA p : d ** x.g[p],
        LAMBDA p, q : (d ** x.h[p][q]) ++ ((dd ** x.g[p]) ** x.g[q]))

JetConstant(x) == Jet(x % Prime, LAMBDA p : 0, LAMBDA p, q : 0)
JetVariable(x, of) == Jet(x, LAMBDA p : IF p = of THEN 1 ELSE 0, LAMBDA p, q : 0)

JetAdd(x, y) == Jet(x.v ++ y.v, LAMBDA p : x.g[p] ++ y.g[p], LAMBDA p, q : x.h[p][q] ++ y.h[p][q])
JetSub(x, y) == Jet(x.v -- y.v, LAMBDA p : x.g[p] -- y.g[p], LAMBDA p, q : x.h[p][q] -- y.h[p][q])

JetMul(x, y) ==
    Jet(x.v ** y.v,
        LAMBDA p : (x.g[p] ** y.v) ++ (x.v ** y.g[p]),
        LAMBDA p, q : (x.h[p][q] ** y.v) ++ (x.g[p] ** y.g[q]) ++ (x.g[q] ** y.g[p])
                          ++ (x.v ** y.h[p][q]))

JetInverse(x) ==
    Through(x, PlainPower(x.v, -1), PlainLift(-PlainPower(x.v, -2)), 2 ** PlainPower(x.v, -3))
JetDiv(x, y) == JetMul(x, JetInverse(y))
JetExp(x) == Through(x, PlainExp(x.v), PlainExp(x.v), PlainExp(x.v))
JetPower(x, n) == Through(x, PlainPower(x.v, n), PlainLift(n) ** PlainPower(x.v, n - 1),
                          PlainLift(n * (n - 1)) ** PlainPower(x.v, n - 2))

OfJets == INSTANCE ShortRateModels WITH Lift <- JetConstant, Plus <- JetAdd, Minus <- JetSub,
                                        Times <- JetMul, Over <- JetDiv, Exp <- JetExp,
                                        Power <- JetPower

-----------------------------------------------------------------------------
(* The functions of api.rs.  A market m holds the parameters; with         *)
(* use_par_rate the coupon of the swap is fixed once, in plain arithmetic, *)
(* and does not move with the parameters.                                  *)

\* The state a swap is valued in today.
InitialState(m) == IF m.kind = "1F" THEN <<m.r0>> ELSE <<0, 0>>

\* build_irs_swap, build_irs_swap_2f
BuildSwap(m, q) == [notional |-> q.notional, start |-> q.start, payment_times |-> q.payment_times,
                    accruals |-> q.accruals,
                    fixed_rate |-> IF q.use_par_rate THEN Plain!ParRate(q, InitialState(m), m)
                                                     ELSE q.fixed_rate]

\* irs_hull_white_npv, irs_hull_white_2f_npv
IrsNpv1F(m, q) == Plain!Npv(BuildSwap(m, q), <<m.r0>>, 0, m)
IrsNpv2F(m, q) == Plain!Npv(BuildSwap(m, q), <<0, 0>>, 0, m)

\* The parameters of m as numbers of another kind; the plain rho stays.
Seeded(m, Variable(_, _)) == [p \in DOMAIN m |-> IF p \in Params THEN Variable(m[p], p) ELSE m[p]]

\* What a backward pass sees: the price of a swap whose coupon is settled, in a model whose
\* parameters in vars are the variables.
Differentiated(m, q, vars) ==
    LET d == Seeded(m, LAMBDA x, p : IF p \in vars THEN JetVariable(x, p) ELSE JetConstant(x))
        state == IF m.kind = "1F" THEN <<d.r0>> ELSE <<JetConstant(0), JetConstant(0)>>
    IN  OfJets!Npv(BuildSwap(m, q), state, 0, d)

\* irs_hull_white_npv_delta_r0, irs_hull_white_2f_npv_delta_r0
DeltaR01F(m, q) == Differentiated(m, q, {"r0"}).g["r0"]
DeltaR02F(m, q) == Differentiated(m, q, {"r0"}).g["r0"]

\* irs_hull_white_npv_all_greeks, irs_hull_white_2f_npv_all_greeks: one backward pass for all
AllGreeks1F(m, q) == LET vars == Params \ {"eta"} IN [p \in vars |-> Differentiated(m, q, vars).g[p]]
AllGreeks2F(m, q) == [p \in Params |-> Differentiated(m, q, Params).g[p]]

\* smoke.rs: the price of a bond and its delta
BondDeltaR0(m, t, maturity) ==
    LET d == Seeded(m, LAMBDA x, p : IF p = "r0" THEN JetVariable(x, p) ELSE JetConstant(x))
    IN  OfJets!ZeroCouponBond(d, <<d.r0>>, t, maturity).g["r0"]

-----------------------------------------------------------------------------
(* hull_white_1f_hessian and hull_white_2f_hessian: one Dual2 evaluation   *)
(* per parameter, one HyperDual evaluation per pair of them.               *)

\* The pairs in the order the code lists them, first the direction x and then y.
Pairs1F == {<<"a", "b">>, <<"a", "sigma">>, <<"a", "r0">>, <<"b", "sigma">>, <<"b", "r0">>,
            <<"sigma", "r0">>}
Pairs2F == {<<"a", "b">>, <<"a", "sigma">>, <<"a", "eta">>, <<"a", "r0">>, <<"b", "sigma">>,
            <<"b", "eta">>, <<"b", "r0">>, <<"sigma", "eta">>, <<"sigma", "r0">>, <<"eta", "r0">>}

\* The point m, with one parameter or two as the variables.
AlongOne(m, of) == Seeded(m, LAMBDA x, p : IF p = of THEN Dual2Variable(x) ELSE Dual2Constant(x))
AlongTwo(m, of, and) == Seeded(m, LAMBDA x, p : IF p = of THEN HyperX(x)
                                                ELSE IF p = and THEN HyperY(x)
                                                ELSE HyperConstant(x))

LOCAL HessianRecord(value, duals, hypers) ==
    [value |-> value,
     first |-> [p \in DOMAIN duals |-> duals[p].d1],
     second |-> [p \in DOMAIN duals |-> SecondDerivative(duals[p])],
     mixed |-> [pq \in DOMAIN hypers |-> hypers[pq].dxy]]

Hessian1F(m, q) ==
    LET swap == [q EXCEPT !.fixed_rate = IF q.use_par_rate THEN Plain!DualParRate1F(q, m) ELSE @]
    IN  HessianRecord(Plain!DualNpv1F(swap, m),
                      [p \in Params \ {"eta"} |-> OfDual2!DualNpv1F(swap, AlongOne(m, p))],
                      [pq \in Pairs1F |-> OfHyper!DualNpv1F(swap, AlongTwo(m, pq[1], pq[2]))])

Hessian2F(m, q) ==
    LET swap == [q EXCEPT !.fixed_rate = IF q.use_par_rate THEN Plain!DualParRate2F(q, m) ELSE @]
    IN  HessianRecord(Plain!DualNpv2F(swap, m),
                      [p \in Params |-> OfDual2!DualNpv2F(swap, AlongOne(m, p))],
                      [pq \in Pairs2F |-> OfHyper!DualNpv2F(swap, AlongTwo(m, pq[1], pq[2]))])

\* The same record read off the jet of the tensor pricer.
ReferenceHessian(m, q) ==
    LET price == Differentiated(m, q, Params \cap DOMAIN m)
    IN  [value |-> price.v,
         first |-> [p \in Params \cap DOMAIN m |-> price.g[p]],
         second |-> [p \in Params \cap DOMAIN m |-> price.h[p][p]],
         mixed |-> [pq \in (IF m.kind = "1F" THEN Pairs1F ELSE Pairs2F) |-> price.h[pq[1]][pq[2]]]]

=============================================================================
