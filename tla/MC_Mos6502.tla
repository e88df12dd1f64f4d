----------------------------- MODULE MC_Mos6502 -----------------------------
(***************************************************************************)
(* The CPU executing small guest programs in the way the Hawknest system   *)
(* does: a ROM at 0xA000 whose reset vector is the program's first byte.   *)
(* Every guest ends in a jump to itself; "post" says what RAM must hold    *)
(* there, computed from the guest's inputs with ordinary arithmetic and    *)
(* not with the operators of Mos6502Isa.                                   *)
(***************************************************************************)
EXTENDS CpuStack, TLC

MCRamSize  == 32768
MCArgv     == << <<104>> >>
MCResults  == {3, 65535}
MCData     == {7}

Org == \hA000

(* A ROM: code at Org, and the vectors.                                    *)
Rom(code) ==
  [ad \in Org..(Org + Len(code) - 1) |-> code[ad - Org + 1]]
  @@ (\hFFFC :> Lo(Org)) @@ (\hFFFD :> Hi(Org)) @@ (\hFFFE :> \h40)

At(n) == <<Lo(Org + n), Hi(Org + n)>>      \* the address of byte n of the code
Halt(n) == <<\h4C>> \o At(n)               \* n: JMP n

(* code, followed by its halt loop, where S is back at its reset value     *)
Guest(code, post) ==
  [rom  |-> Rom(code \o Halt(Len(code))),
   halt |-> Org + Len(code), post |-> post, sp |-> \hFD]

Edge == {0, 1, 127, 128, 255}

(* CLC; then LDA #, ADC #, STA for each byte from the lowest: an addition  *)
(* of three bytes, whose carry appears and disappears on the way           *)
AddBytes(v, w, ad) == <<\hA9, v, \h69, w, \h85, ad>>
Add24(v, w) ==
  LET b(n, k) == (n \div 256^k) % 256
  IN  Guest(<<\h18>> \o AddBytes(b(v, 0), b(w, 0), 15) \o AddBytes(b(v, 1), b(w, 1), 16)
                     \o AddBytes(b(v, 2), b(w, 2), 17),
            [ad \in 15..17 |-> b(v + w, ad - 15)])

(* LDX #; then INC 12, DEX, BNE back: a loop that counts X passes in RAM   *)
Count(n) ==
  Guest(<<\hA2, n, \hE6, 18, \hCA, \hD0, 251>>,
        18 :> ((255 + (IF n = 0 THEN 256 ELSE n)) % 256))

(* LDA #; STA 20; LDA #; STA 21; LDA #0; LDX #8; LSR 20; then 8 times      *)
(* BCC +3, CLC, ADC 21, ROR A, ROR 20, DEX; finally STA 22: the product    *)
(* of two bytes by shifts and additions                                    *)
Multiply(v, w) ==
  Guest(<<\hA9, v, \h85, 20, \hA9, w, \h85, 21, \hA9, 0, \hA2, 8, \h46, 20,
          \h90, 3, \h18, \h65, 21, \h6A, \h66, 20, \hCA, \hD0, 245, \h85, 22>>,
        (20 :> Lo(v * w)) @@ (22 :> Hi(v * w)))

(* CLC; LDA #; CMP #; BCS +5; LDA #0; JMP; LDA #1; STA 24: an unsigned >=  *)
AtLeast(v, w) ==
  Guest(<<\h18, \hA9, v, \hC9, w, \hB0, 5, \hA9, 0, \h4C>> \o At(14) \o
        <<\hA9, 1, \h85, 24>>,
        24 :> IF v >= w THEN 1 ELSE 0)

(* LDY #0; LDX #8; LDA #; loop: ASL A, BCC +1, INY, DEX, BNE; TYA; AND #1; *)
(* STA 25: the parity of a byte                                            *)
Parity(v) ==
  Guest(<<\hA0, 0, \hA2, 8, \hA9, v, \h0A, \h90, 1, \hC8, \hCA, \hD0, 249,
          \h98, \h29, 1, \h85, 25>>,
        25 :> Cardinality(Bits(v)) % 2)

(* LDY #0; loop: LDA table,Y, STA 0300,Y, INY, CPY #3, BNE; JMP (next)     *)
CopyTable ==
  LET table == <<9, 0, 200>>
  IN  Guest(<<\hA0, 0, \hB9>> \o At(18) \o <<\h99, 0, 3, \hC8, \hC0, 3, \hD0, 245,
              \h6C>> \o At(16) \o At(21) \o table,
            (768 :> 9) @@ (769 :> 0) @@ (770 :> 200))

(* LDA #; PHA; PHP; JSR f; PLP; PLA; STA 26; JMP halt; f: LDA #; PHA;      *)
(* JSR g; PLA; STA 27; RTS; g: TAX, INX, STX 28, BIT 28, NOP, RTS: nested  *)
(* calls, each of which keeps a byte of its own on the stack               *)
Nested(v, w) ==
  Guest(<<\hA9, v, \h48, \h08, \h20>> \o At(14) \o <<\h28, \h68, \h85, 26, \h4C>> \o At(32)
        \o <<\hA9, w, \h48, \h20>> \o At(24) \o <<\h68, \h85, 27, \h60>>
        \o <<\hAA, \hE8, \h86, 28, \h24, 28, \hEA, \h60>>,
        (26 :> v) @@ (27 :> w) @@ (28 :> (w + 1) % 256))

(* LDX #40; TXS; LDA #hi; STA 42; LDA #lo; STA 41; RTI: to the next byte   *)
ReturnFromInterrupt ==
  [Guest(<<\hA2, 40, \h9A, \hA9, Hi(Org + 12), \h85, 42, \hA9, Lo(Org + 12), \h85, 41, \h40>>,
         (41 :> Lo(Org + 12)) @@ (42 :> Hi(Org + 12))) EXCEPT !.sp = 42]

Guests ==
  {Add24(p[1], p[2]) : p \in {0, 127, 255, 65280, 65535, 8388608, 16777215} \X {1, 255, 65281}}
  \cup {Count(n) : n \in {0, 1, 5}}
  \cup {Multiply(v, w) : v, w \in {0, 1, 128, 255}}
  \cup {AtLeast(v, w) : v, w \in Edge}
  \cup {Parity(v) : v \in Edge}
  \cup {Nested(v, 255) : v \in {0, 200}}
  \cup {CopyTable, ReturnFromInterrupt}

(* Guests that do not halt: BRK (to an empty zero page: a NULL handler),   *)
(* and the paravirtual exit, open (Y is 128), close and break              *)
Endless == {Rom(<<\h00>>), Rom(<<\h80, 1>>), Rom(<<\hA0, 128, \h80, 2>>),
            Rom(<<\h80, 3>>), Rom(<<\h80, 6>>)}

-----------------------------------------------------------------------------
(* Guests that use the stack well or badly: CpuStack's history follows     *)
(* both.  LDA #; PHA; PHP; JSR f; PLP; PLA; JMP 0; f: LDA #; PHA; SEC; PHP;*)
(* PLP; PLA; RTS: a call between pushes of its caller and its own          *)
Mixed(v) ==
  Rom(<<\hA9, v, \h48, \h08, \h20>> \o At(12) \o <<\h28, \h68, \h4C>> \o At(0) \o
      <<\hA9, 129, \h48, \h38, \h08, \h28, \h68, \h60>>)

(* LDX #; TXS; JSR f; f: PHA, four times; halt: runs over the end of the   *)
(* page from an S of x                                                     *)
Deeper(x) == Rom(<<\hA2, x, \h9A, \h20>> \o At(6) \o <<\h48, \h48, \h48, \h48>> \o Halt(10))

(* LDX #; TXS; LDA #; PHA; STA 01xx; PLA; PLA; RTS: a store into the page, *)
(* then more pulls than pushes                                             *)
Careless(x, ad) == Rom(<<\hA2, x, \h9A, \hA9, 5, \h48, \h8D, ad, 1, \h68, \h68, \h60>>)

(* JSR f; JMP 0; f: paravirtual close, which the PC does not leave         *)
Host == Rom(<<\h20>> \o At(6) \o <<\h4C>> \o At(0) \o <<\h80, 3>>)

(* PHA; BRK; and LDX #; TXS; RTI                                           *)
Trap    == Rom(<<\h48, \h00>>)
TrapEnd == Rom(<<\hA2, 40, \h9A, \h40>>)

StackGuests ==
  {Mixed(v) : v \in {0, 200}} \cup {Deeper(x) : x \in {0, 1, 2, 5}}
    \cup {Careless(p[1], p[2]) : p \in {9, 255} \X {8, 9, 255}} \cup {Host, Trap, TrapEnd}

MCImages == {g.rom : g \in Guests} \cup Endless \cup StackGuests

Loaded(g) == \A ad \in DOMAIN g.rom : ad \in DOMAIN mem /\ mem[ad] = g.rom[ad]
Halted(g) == status = "running" /\ Loaded(g) /\ cpu.pc = g.halt

-----------------------------------------------------------------------------
(* A guest that reaches its halt loop has computed what ordinary arithmetic*)
(* says and left S where it should be: the handlers' values, flags,        *)
(* lengths, pushes, pulls and branches compose.                            *)
GuestResult ==
  \A g \in Guests :
    Halted(g) => /\ \A ad \in DOMAIN g.post : MemRead(mem, ad) = g.post[ad]
                 /\ cpu.sp = g.sp

(* Every guest reaches its halt loop, whatever interrupts are raised: no   *)
(* loop of a guest misses the flag that ends it.                           *)
GuestHalts == <>(\A g \in Guests : Loaded(g) => Halted(g))
=============================================================================
