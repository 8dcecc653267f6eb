------------------------------- MODULE Primes -------------------------------
(***************************************************************************)
(* The prime test of common.go (modExp, mulMod, check, IsPrime), for words *)
(* of WordBits bits; the code's have 64.  mulMod takes the product in two  *)
(* words, as bits.Mul64 returns it, and Div64 panics when the quotient     *)
(* does not fit in one.                                                    *)
(***************************************************************************)
EXTENDS Integers, FiniteSetsExt

CONSTANT WordBits

ASSUME WordAssumption == WordBits \in Nat \ {0}

Radix == 2^WordBits
Panic == -1

Mul64(a, b)        == [hi |-> (a * b) \div Radix, lo |-> (a * b) % Radix]
Div64(hi, lo, mod) == IF mod <= hi THEN Panic ELSE (hi * Radix + lo) % mod

mulMod(a, b, mod) == LET p == Mul64(a, b) IN Div64(p.hi, p.lo, mod)

(* Square and multiply, the lowest bit of the exponent first.              *)
modExp(base, exp, mod) ==
    LET loop[e \in Nat, b \in Int, result \in Int] ==
          IF e = 0 THEN result
          ELSE loop[e \div 2, mulMod(b, b, mod),
                    IF e % 2 = 1 THEN mulMod(result, b, mod) ELSE result]
    IN  loop[exp, base % mod, 1]

(* Does n pass the Miller-Rabin test for base a, where n - 1 = d * 2^r ?   *)
Squarings(r) == 1 .. r - 1

check(a, d, n, r) ==
    LET x[i \in Nat] == IF i = 0 THEN modExp(a, d, n)
                        ELSE mulMod(x[i - 1], x[i - 1], n)
    IN  x[0] = 1 \/ x[0] = n - 1 \/ \E i \in Squarings(r) : x[i] = n - 1

smallPrimes == {2, 3, 5, 7, 11, 13, 17}

IsPrime(n) ==
    LET r == Max({k \in 0 .. WordBits : (n - 1) % 2^k = 0})
        d == (n - 1) \div 2^r
        divisors == {p \in smallPrimes : n % p = 0}
    IN  /\ n >= 2
        /\ IF divisors # {} THEN n \in smallPrimes
           ELSE \A a \in smallPrimes : a < n => check(a, d, n, r)

(* ParseUint: anything else is skipped, a number too large as well.        *)
Parses(n) == n \in 0 .. Radix - 1

-----------------------------------------------------------------------------
(* Prime by the definition.                                                *)
Prime(n) == n > 1 /\ \A k \in 2 .. n - 1 : k * k <= n => n % k # 0
=============================================================================
