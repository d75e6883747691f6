---------------------------- MODULE MCExecution ----------------------------
EXTENDS Execution

(* Three-byte words: every number below, and the sum of any two, can be    *)
(* computed by TLC, and bytes, halfwords and words are all different.      *)
MinWord == -(2 ^ 23)
MaxWord == 2 ^ 23 - 1

(* Different words of the memory hold different numbers, all of them       *)
(* addresses.                                                              *)
MCFill(x) == (x * 7919) % 99991
MCWords == <<>>
MCCounts == {-1, 1}
MCFrame == 1000
MCG == 2000

Op(r) == r @@ [words |-> <<>>, regs |-> {<<3001, 77, 517>>}, body |-> {}]
Pairs(S, T) == {<<x, y, 1>> : x \in S, y \in T}

Limits  == {0, 2, 3, 12, 16, 17, 255, 256, 511, 512, 65535, 65536}
Globals == {1, 255, 256, 511, 512, 65535}
Small   == 0 .. 18

OnNumbers ==
  {Op([do |-> d, n |-> n]) : d \in {"lp", "sp", "llp", "ap"}, n \in Limits \cup Small}
  \cup {Op([do |-> d, n |-> n]) : d \in {"lg", "sg", "llg", "ag", "s0g"}, n \in Globals}
  \cup {Op([do |-> "lig", i |-> i, n |-> n]) : i \in 0 .. 2, n \in Globals}
  \cup {Op([do |-> d, n |-> n]) : d \in {"k", "addk"},
          n \in (-7 .. 13) \cup {x * y : x \in {1, -1}, y \in {255, 256, 65535, 65536, 70000}}
                \cup {MinWord, MaxWord}}

OnWords ==
  {Op([do |-> "lip", i |-> x[1], n |-> x[2]]) :
     x \in {0} \X (3 .. 12) \cup {1} \X (3 .. 6) \cup {2} \X (3 .. 5) \cup {3, 4} \X {3, 4}}
  \cup {Op([do |-> "rv", n |-> n]) : n \in 0 .. 6}
  \cup {Op([do |-> "rvp", n |-> n]) : n \in 3 .. 7}
  \cup {Op([do |-> "st", n |-> n]) : n \in 0 .. 3}
  \cup {Op([do |-> "stp", n |-> n]) : n \in 3 .. 5}
  \cup {Op([do |-> "sip", i |-> i, n |-> n]) : i \in {0, 1}, n \in {3, 4}}
  \cup {Op([do |-> "getbyte", regs |-> Pairs({-1, 0, 1, 2, 3, 7}, {3001, 66})])}
  \cup {Op([do |-> "putbyte", regs |-> {<<i, 3001, ch>> : i \in -1 .. 5, ch \in {0, 255, 517, -1}}])}
  \cup {Op([do |-> "xputbyte", regs |-> {<<3001, i, ch>> : i \in {0, 5}, ch \in {7, -1}}])}

(* Field operations on a word that looks negative and one that does not.   *)
OnFields ==
  {Op([do |-> "getfield", len |-> x[1], sh |-> x[2], words |-> (3001 :> w)]) :
     x \in {<<8, 0>>, <<8, 16>>, <<1, 23>>, <<0, 0>>, <<5, 7>>}, w \in {-12345, 8000000}}
  \cup {Op([do |-> "getfield", len |-> 0, sh |-> 4, words |-> (3001 :> 8000000)])}
  \cup {Op([do |-> "putfield", f |-> f, len |-> x[1], sh |-> x[2],
            words |-> (3001 :> -12345), regs |-> {<<3001, y, 1>> : y \in {0, 3, -200}}]) :
          f \in {0, 9, 10, 17},
          x \in {<<8, 0>>, <<8, 16>>, <<1, 23>>, <<0, 4>>, <<5, 7>>}}
  \cup {Op([do |-> "putfield", f |-> f, len |-> 5, sh |-> 7,
            words |-> (3001 :> w), regs |-> {<<3001, y, 1>> : y \in {0, 3}}]) :
          f \in 1 .. 16, w \in {-12345, 8000000}}

Signs == {MinWord, -300, -1, 0, 1, 299, MaxWord}
OnRegisters ==
  {Op([do |-> d, regs |-> Pairs(Signs, Signs)]) :
     d \in {"add", "sub", "logand", "logor", "neqv"}}
  \cup {Op([do |-> d, regs |-> Pairs(Signs, {9})]) :
     d \in {"neg", "not", "abs", "xch", "atb", "atc", "btc", "nop", "fhop"}}
  \cup {Op([do |-> "mul", regs |-> Pairs({-5000, 0, 1, 4999}, {-5000, -1, 3, 5000})])}
  \cup {Op([do |-> d, regs |-> Pairs({-7, -3, -1, 1, 2, 8}, {-15, -1, 0, 6, 7})]) : d \in {"div", "rem"}}
  \cup {Op([do |-> d, regs |-> Pairs({0, 1, 8, 23, 24, 25, 300}, {5, -3})]) : d \in {"lshift", "rshift"}}

Relations == {"eq", "ne", "ls", "gr", "le", "ge"}
FarWord(off) == 614 :> off % 65536 @@ 770 :> off % 65536
FarRegs == Pairs({-1, 0, 5, 6}, {5})
OnJumps ==
  {Op([do |-> "jump?", rel |-> r, sense |-> s, place |-> l,
       regs |-> Pairs({MinWord, -1, 0, 2}, {MinWord, -1, 0, 2})]) :
     r \in Relations, s \in BOOLEAN, l \in E!Places}
  \cup {Op([do |-> "rel", rel |-> r, sense |-> TRUE, place |-> l,
            regs |-> Pairs({-1, 0, 2}, {-1, 0, 2})]) : r \in Relations, l \in E!Places}
  \cup {Op([do |-> "farjump?", rel |-> r, sense |-> TRUE, i |-> x[1], place |-> x[2],
            n |-> 20, off |-> off, words |-> FarWord(off), regs |-> FarRegs]) :
          r \in Relations, x \in {<<0, "ba">>, <<2, "a0">>}, off \in {300, -900}}
  \cup {Op([do |-> d]) : d \in {"lf", "ll", "lll", "sl", "jump"}}
  \cup {Op([do |-> "far", to |-> d, n |-> n, off |-> off, words |-> FarWord(off)]) :
          d \in {"lf", "ll", "lll", "sl"}, n \in {20, 254}, off \in {300, -900}}

CaseLists == {<<>>, <<3>>, <<-70000>>, <<5, 1>>, <<1, 70000>>, <<3, 1, 2>>, <<0, 3, 6>>, <<7, 3, 0>>,
              <<65535, 1, 9, 0>>, <<2, 65537, 1>>, <<-2, 0, 300>>, <<10, 11, 12, 14>>,
              <<90000, -1, 5, 6, -70000, 7, 8>>, <<0, 20, 40, 60, 80, 100, 120, 140>>,
              [i \in 1 .. 12 |-> 30 * i], <<-200000, 0, 1, 2, 100000, 200000, 300000>>}
Around(K) == UNION {{K[i] - 1, K[i], K[i] + 1, K[i] - 65536, K[i] + 65536} : i \in DOMAIN K}
             \cup {0, -1, MinWord, MaxWord}
OnSwitches ==
  {Op([do |-> "switch", cases |-> K, regs |-> Pairs(Around(K), {77})]) : K \in CaseLists}

(* Functions called: A1 RTN at 2400, MDIV at 2403, CHGCO at 2406. *)
Functions == 800 :> 209 + 123 * 256 @@ 801 :> 239 @@ 802 :> 240
Entry == [add1 |-> 2400, muldiv |-> 2403, changeco |-> 2406]
Frames == {3, 4, 5, 6, 7, 8, 9, 10, 11, 12, 255, 256, 65535, 65536}
OnCalls ==
  {Op([do |-> "call", fn |-> "add1", k |-> k, words |-> Functions,
       regs |-> {<<2400, 41, 1>>}, body |-> {2400, 2401}]) : k \in Frames}
  \cup {Op([do |-> "callg", fn |-> "add1", k |-> k, n |-> n,
            words |-> (MCG + n :> 2400) @@ Functions,
            regs |-> {<<41, 7, 1>>}, body |-> {2400, 2401}]) :
          k \in 3 .. 11, n \in Globals}
  \cup {Op([do |-> "callg", fn |-> "muldiv", k |-> 6, n |-> 5,
            words |-> (MCG + 5 :> 2403 @@ MCFrame + 10 :> x @@ MCFrame + 11 :> y) @@ Functions,
            regs |-> Pairs({-7, 0, 7, 5000}, {7}), body |-> {2403}]) :
          x \in {-3, 3, 300}, y \in {-2, 1, 7}}
  \cup {Op([do |-> "callg", fn |-> "changeco", k |-> 6, n |-> 6,
            words |-> (MCG + 6 :> 2406 @@ MCG + 7 :> 3100 @@ MCFrame + 10 :> to
                       @@ 3200 :> 3 * 3333) @@ Functions,
            body |-> {2406}]) : to \in {3100, 3200}}

OnTraps ==
  {Op([do |-> "goto", regs |-> Pairs({-5, 600001}, {7}), body |-> {-5, 600001}]),
   Op([do |-> "goto", regs |-> Pairs({0, 600000}, {7})]),
   Op([do |-> "brk"]), Op([do |-> "illegal"]),
   Op([do |-> "div", regs |-> Pairs({0}, {0, 5}) \cup Pairs({-1}, {MinWord})]),
   Op([do |-> "rem", regs |-> Pairs({0}, {5})]),
   Op([do |-> "sys", words |-> (MCFrame + 4 :> 5), regs |-> Pairs({-1, 0, 5, 30}, {7})]),
   Op([do |-> "watched", words |-> (MCFrame + 4 :> MCFrame + 5), regs |-> Pairs({5}, {7})])}
  \cup {Op([do |-> "float", n |-> n]) : n \in {0, 1, 2, 3, 17, 18}}

MCOperations == OnNumbers \cup OnWords \cup OnFields \cup OnRegisters \cup OnJumps
                \cup OnSwitches \cup OnCalls \cup OnTraps
=============================================================================
