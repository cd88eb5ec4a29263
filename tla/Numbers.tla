------------------------------ MODULE Numbers ------------------------------
(***************************************************************************)
(* The conversions inside the system calls ReadNum and PrintNum            *)
(* (userprog/exception.cc) between 32-bit integers and characters, which   *)
(* are their codes.  Module FileTable uses them; IsDecimal is what they    *)
(* are checked against.                                                    *)
(***************************************************************************)
EXTENDS Integers, Sequences, SequencesExt

MaxInt == 2147483647
MinInt == -MaxInt - 1

Zero == 48
Dash == 45
IsDigit(ch) == ch \in Zero .. Zero + 9

-----------------------------------------------------------------------------
(* ReadNum *)

\* The loop over the digits of num: the value of the characters first .. i.
Digits(num, first) ==
    LET ans[i \in 0 .. Len(num)] ==
            IF i < first THEN 0 ELSE ans[i - 1] * 10 + (num[i] - Zero)
    IN ans[Len(num)]

FirstDigit(num) == IF num[1] = Dash THEN 2 ELSE 1

\* Every character after a sign is a digit; otherwise ReadNum halts the machine.
IsNumber(num) == \A i \in FirstDigit(num) .. Len(num) : IsDigit(num[i])

\* Faulty variant of NumberOf: the sign is forgotten.
NumberOfPositive(num) == Digits(num, FirstDigit(num))

NumberOf(num) ==
    IF num[1] = Dash THEN -Digits(num, 2) ELSE Digits(num, 1)

-----------------------------------------------------------------------------
(* PrintNum *)

\* num * -1 in 32 bits.
Negated(num) == IF num = MinInt THEN MinInt ELSE -num

\* while (num > 0) out[leng++] = num % 10 + '0', num /= 10.
LowFirst[num \in MinInt .. MaxInt] ==
    IF num > 0 THEN <<(num % 10) + Zero>> \o LowFirst[num \div 10] ELSE <<>>

\* What PrintNum leaves in out, as many characters as it may be.
Text(num) ==
    IF num = 0 THEN <<Zero>>
    ELSE Reverse(IF num > 0 THEN LowFirst[num]
                            ELSE Append(LowFirst[Negated(num)], Dash))

-----------------------------------------------------------------------------
(* Reference: text is how num is written in decimal. *)

Power10(k) == <<1, 10, 100, 1000, 10000, 100000, 1000000, 10000000, 100000000, 1000000000>>[k + 1]

IsDecimal(text, num) ==
    LET digits == IF num < 0 THEN Tail(text) ELSE text
        n == Len(digits)
        abs == IF num < 0 THEN -num ELSE num
    IN /\ text # <<>>
       /\ num < 0 => Head(text) = Dash
       /\ n \in 1 .. 10
       /\ num # 0 => digits[1] # Zero
       /\ abs \div Power10(n - 1) <= 9
       /\ \A i \in 1 .. n : digits[i] = ((abs \div Power10(n - i)) % 10) + Zero
=============================================================================
