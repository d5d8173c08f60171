---------------------------- MODULE ShortRateModels ----------------------------
(***************************************************************************)
(* The two short rate models and the swap they value, written once for     *)
(* every kind of number, as the Rust code is (Tensor<B> over any backend,  *)
(* T: DualNumber): the seven operators below are the arithmetic, and       *)
(* HullWhiteDual instantiates them with plain numbers, with Dual2, with    *)
(* HyperDual and with full jets.                                           *)
(*                                                                         *)
(* The code holds the formulas twice: over tensors (models/hull_white.rs,  *)
(* models/hull_white_2f.rs, products/irs.rs), where they are differentiated *)
(* by the autodiff of the tensor library, and over dual numbers            *)
(* (models/hull_white_dual.rs), the copy the second derivatives come from. *)
(* Both are here.                                                          *)
(***************************************************************************)
EXTENDS Integers, Sequences, SequencesExt

CONSTANTS Lift(_),        \* the number of an integer literal or of a plain number
          Plus(_, _), Minus(_, _), Times(_, _), Over(_, _),
          Exp(_),
          Power(_, _)     \* a constant integer exponent

LOCAL Half == Over(Lift(1), Lift(2))
LOCAL Negated(x) == Minus(Lift(0), x)
LOCAL Sum(terms) == FoldLeft(Plus, Lift(0), terms)

-----------------------------------------------------------------------------
(* Over tensors.  A model m has the parameters of its kind, "1F" or "2F";  *)
(* the state is the short rate <<r>> or the two latent factors <<x, y>>.   *)

BFactor(z, tau) == Over(Plus(Negated(Exp(Times(z, Lift(-tau)))), Lift(1)), z)

AFactor(m, tau, btt) ==
    LET a2 == Times(m.a, m.a)
        sigma2 == Times(m.sigma, m.sigma)
        term1 == Over(Times(Plus(btt, Lift(-tau)), Minus(Times(a2, m.b), Times(sigma2, Half))), a2)
        term2 == Over(Times(Times(sigma2, btt), btt), Times(m.a, Lift(4)))
    IN  Exp(Minus(term1, term2))

ZeroCouponBond1F(m, r, tau) ==
    LET btt == BFactor(m.a, tau)
    IN  Times(AFactor(m, tau, btt), Exp(Negated(Times(btt, r))))

VarianceTerm(z, vol, tau) ==
    LET inv == Power(z, -1)
        e1 == Exp(Times(z, Lift(-tau)))
        e2 == Exp(Times(z, Lift(-2 * tau)))
        bracket == Plus(Minus(Minus(Times(Times(inv, Lift(2)), e1), Times(Times(inv, Half), e2)),
                              Times(inv, Over(Lift(3), Lift(2)))),
                        Lift(tau))
    IN  Times(Over(Times(vol, vol), Times(z, z)), bracket)

CrossTerm(m, tau) ==
    LET Decay(z) == Over(Plus(Exp(Times(z, Lift(-tau))), Lift(-1)), z)
        bracket == Minus(Plus(Plus(Decay(m.a), Lift(tau)), Decay(m.b)), Decay(Plus(m.a, m.b)))
        coef == Over(Times(Times(m.sigma, m.eta), Lift(2 * m.rho)), Times(m.a, m.b))
    IN  Times(coef, bracket)

LOCAL Variance(m, tau) ==
    Plus(Plus(VarianceTerm(m.a, m.sigma, tau), VarianceTerm(m.b, m.eta, tau)), CrossTerm(m, tau))

ZeroCouponBond2F(m, x, y, tau) ==
    Exp(Minus(Minus(Plus(Times(m.r0, Lift(-tau)), Times(Variance(m, tau), Half)),
                    Times(BFactor(m.a, tau), x)),
              Times(BFactor(m.b, tau), y)))

\* The trait ShortRateModel: all a product asks of its model.
ZeroCouponBond(m, state, t, maturity) ==
    IF m.kind = "1F" THEN ZeroCouponBond1F(m, state[1], maturity - t)
                     ELSE ZeroCouponBond2F(m, state[1], state[2], maturity - t)

\* The bonds a swap is made of, in state at t, by maturity.
LOCAL Dates(swap) == {swap.start} \cup Range(swap.payment_times)
LOCAL Bonds(m, state, t, swap) == [maturity \in Dates(swap) |-> ZeroCouponBond(m, state, t, maturity)]

LOCAL Floating(swap, bonds) == Minus(bonds[swap.start], bonds[Last(swap.payment_times)])
LOCAL Annuity(swap, bonds, coupon) ==
    Sum([i \in DOMAIN swap.payment_times |->
            Times(coupon, Times(bonds[swap.payment_times[i]], Lift(swap.accruals[i])))])

LOCAL LegsOf(swap, bonds) ==
    Minus(Times(Lift(swap.notional), Floating(swap, bonds)),
          Annuity(swap, bonds, Times(Lift(swap.notional), Lift(swap.fixed_rate))))
LOCAL RateOf(swap, bonds) == Over(Floating(swap, bonds), Annuity(swap, bonds, Lift(1)))

\* IrSwap::npv: notional and fixed rate are plain numbers.
Npv(swap, state, t, m) == LegsOf(swap, Bonds(m, state, t, swap))

\* IrSwap::par_rate: seen from the start of the swap, in the given state.
ParRate(swap, state, m) == RateOf(swap, Bonds(m, state, swap.start, swap))

-----------------------------------------------------------------------------
(* Over dual numbers: the copy of hull_white_dual.rs.  A point p holds     *)
(* every parameter, the initial short rate r0 among them; rho is plain.    *)

DualBFactor(z, tau) == Over(Plus(Negated(Exp(Times(z, Lift(-tau)))), Lift(1)), z)

DualAFactor(p, tau, btt) ==
    LET a2 == Times(p.a, p.a)
        sigma2 == Times(p.sigma, p.sigma)
        term1 == Over(Times(Plus(btt, Lift(-tau)), Minus(Times(a2, p.b), Times(sigma2, Half))), a2)
        term2 == Over(Times(Times(sigma2, btt), btt), Times(p.a, Lift(4)))
    IN  Exp(Minus(term1, term2))

DualBond1F(p, tau) ==
    LET btt == DualBFactor(p.a, tau)
    IN  Times(DualAFactor(p, tau, btt), Exp(Negated(Times(btt, p.r0))))

DualVarianceTerm(z, vol, tau) ==
    LET inv == Power(z, -1)
        e1 == Exp(Times(z, Lift(-tau)))
        e2 == Exp(Times(z, Lift(-2 * tau)))
        bracket == Plus(Minus(Minus(Times(Times(inv, Lift(2)), e1), Times(Times(inv, Half), e2)),
                              Times(inv, Over(Lift(3), Lift(2)))),
                        Lift(tau))
    IN  Times(Over(Times(vol, vol), Times(z, z)), bracket)

DualCrossTerm(p, tau) ==
    LET Decay(z) == Over(Plus(Exp(Times(z, Lift(-tau))), Lift(-1)), z)
        bracket == Minus(Plus(Plus(Decay(p.a), Lift(tau)), Decay(p.b)), Decay(Plus(p.a, p.b)))
        coef == Over(Times(Times(p.sigma, p.eta), Lift(2 * p.rho)), Times(p.a, p.b))
    IN  Times(coef, bracket)

LOCAL DualVariance(p, tau) ==
    Plus(Plus(DualVarianceTerm(p.a, p.sigma, tau), DualVarianceTerm(p.b, p.eta, tau)),
         DualCrossTerm(p, tau))

\* Both factors start at zero, so the terms of the state are left out.
DualBond2F(p, tau) == Exp(Plus(Times(p.r0, Lift(-tau)), Times(DualVariance(p, tau), Half)))

LOCAL Valued(swap, bonds) ==
    LET Leg(i) == Times(Lift(swap.notional * swap.fixed_rate * swap.accruals[i]), bonds[swap.payment_times[i]])
    IN  Minus(Times(Lift(swap.notional), Minus(bonds[swap.start], bonds[Last(swap.payment_times)])),
              Sum([i \in DOMAIN swap.payment_times |-> Leg(i)]))

LOCAL AtPar(swap, bonds) ==
    LET Leg(i) == Times(bonds[swap.payment_times[i]], Lift(swap.accruals[i]))
    IN  Over(Minus(bonds[swap.start], bonds[Last(swap.payment_times)]),
             Sum([i \in DOMAIN swap.payment_times |-> Leg(i)]))

\* npv and npv_2f: valued today, the coupon amounts are constants.
DualNpv1F(swap, p) == Valued(swap, [t \in Dates(swap) |-> DualBond1F(p, t)])
DualNpv2F(swap, p) == Valued(swap, [t \in Dates(swap) |-> DualBond2F(p, t)])

\* par_rate and par_rate_2f: seen from the start of the swap.
DualParRate1F(swap, p) == AtPar(swap, [t \in Dates(swap) |-> DualBond1F(p, t - swap.start)])
DualParRate2F(swap, p) == AtPar(swap, [t \in Dates(swap) |-> DualBond2F(p, t - swap.start)])

=============================================================================
