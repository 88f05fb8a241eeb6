------------------------------ MODULE Selection ------------------------------
(***************************************************************************)
(* What the supervisor reads in a line of the operator: the number of an   *)
(* option, or a selection of modules such as 2,4-6,13.  A line is a        *)
(* sequence of characters: 0..9 for a digit, and three more.               *)
(***************************************************************************)
EXTENDS Integers, Sequences, SequencesExt

CONSTANT IntLimit   \* INT_MAX + 1, which is 2^31

ASSUME IntAssumption == IntLimit \in Nat \ {0}

Comma == -1
Dash == -2
Letter == -3   \* any other character

IsDigit(c) == c \in 0..9

Character == 0..9 \cup {Comma, Dash, Letter}

RET_ERROR == -1

\* Signed arithmetic of this width; the build wraps around.
Wrap(n) == ((n + IntLimit) % (2 * IntLimit)) - IntLimit

\* Decimal value of a string of digits, without a limit.
Value(digits) ==
    LET value[n \in 0..Len(digits)] ==
            IF n = 0 THEN 0 ELSE 10 * value[n - 1] + digits[n]
    IN  value[Len(digits)]

\* One to three digits.
get_number_from_input_choosing_option(line) ==
    IF Len(line) \in 1..3 /\ \A i \in DOMAIN line : IsDigit(line[i])
    THEN Value(line) ELSE RET_ERROR

\* A number goes behind those there are, unless it is one of them.
AddNumber(nums, n) == IF Contains(nums, n) THEN nums ELSE Append(nums, n)

\* The numbers from `from' to `to', which is not INT_MAX.
AddNumbers(nums, from, to) ==
    LET added[k \in 0..(to - from + 1)] ==
            IF k = 0 THEN nums ELSE AddNumber(added[k - 1], from + k - 1)
    IN  added[to - from + 1]

\* The numbers gathered so far: one, or the ends of an interval in any order.
Gathered(acc) ==
    LET beg == IF acc.is_interval THEN acc.interval_beg ELSE acc.cur_num
    IN  IF beg > acc.cur_num THEN AddNumbers(acc.nums, acc.cur_num, beg)
                             ELSE AddNumbers(acc.nums, beg, acc.cur_num)

\* Mutant: an interval is not over where the next item begins.
EndItemInInterval(acc) ==
    [acc EXCEPT !.nums = Gathered(acc), !.cur_num = 0, !.is_num = FALSE]

\* They are added and the next item begins.
EndItem(acc) ==
    [acc EXCEPT !.nums = Gathered(acc), !.cur_num = 0, !.is_num = FALSE,
                !.is_interval = FALSE]

Refused(acc) == [acc EXCEPT !.error = TRUE]

\* The loop's body for character c; `last' says that it is the last one.
ReadCharacter(acc, c, last) ==
    IF acc.error THEN acc
    ELSE CASE IsDigit(c) ->
                 LET new == [acc EXCEPT !.is_num = TRUE, !.cur_num = Wrap(10 * @ + c)]
                 IN  IF last THEN EndItem(new) ELSE new
           [] c = Comma -> IF last \/ ~acc.is_num THEN Refused(acc) ELSE EndItem(acc)
           [] c = Dash -> IF acc.is_num /\ ~acc.is_interval
                          THEN [acc EXCEPT !.is_num = FALSE, !.is_interval = TRUE,
                                           !.interval_beg = acc.cur_num, !.cur_num = 0]
                          ELSE Refused(acc)
           [] OTHER -> Refused(acc)

\* Before the first character.
NothingRead(line) ==
    [error |-> line = <<>>, is_num |-> FALSE, is_interval |-> FALSE,
     cur_num |-> 0, interval_beg |-> 0, nums |-> <<>>]

\* The numbers in the order they were met, or an error.
parse_numbers_user_selection(line) ==
    LET read[i \in 0..Len(line)] ==
            IF i = 0 THEN NothingRead(line)
            ELSE ReadCharacter(read[i - 1], line[i], i = Len(line))
        end == read[Len(line)]
    IN  [error |-> end.error, nums |-> IF end.error THEN <<>> ELSE end.nums]

-----------------------------------------------------------------------------
(* The reference: items separated by commas, each one a number or two      *)
(* numbers with a dash in between.                                         *)

IsNumber(s) == s # <<>> /\ \A i \in DOMAIN s : IsDigit(s[i])

IsInterval(s, k) ==
    s[k] = Dash /\ IsNumber(SubSeq(s, 1, k - 1)) /\ IsNumber(SubSeq(s, k + 1, Len(s)))

\* A number and a dash with nothing behind it.
IsOpen(s) == s # <<>> /\ s[Len(s)] = Dash /\ IsNumber(SubSeq(s, 1, Len(s) - 1))

\* The pieces of the line between commas: <<first, last>> indices.
Pieces(line) ==
    {p \in (1..(Len(line) + 1)) \X (0..Len(line)) :
        /\ p[2] >= p[1] - 1
        /\ p[1] = 1 \/ line[p[1] - 1] = Comma
        /\ p[2] = Len(line) \/ line[p[2] + 1] = Comma
        /\ \A k \in p[1]..p[2] : line[k] # Comma}

Piece(line, p) == SubSeq(line, p[1], p[2])

\* What an item stands for; nothing if it is no item.
Denotes(s) ==
    IF IsNumber(s) THEN {Value(s)}
    ELSE IF \E k \in DOMAIN s : IsInterval(s, k)
    THEN LET k == CHOOSE k \in DOMAIN s : IsInterval(s, k)
             a == Value(SubSeq(s, 1, k - 1))
             b == Value(SubSeq(s, k + 1, Len(s)))
         IN  a..b \cup b..a
    ELSE {}

\* Every number is smaller than INT_MAX: a larger one does not fit into an int,
\* and the loop over the numbers does not end at INT_MAX.
Fits(line) ==
    \A i, j \in DOMAIN line :
        i <= j /\ IsNumber(SubSeq(line, i, j)) => Value(SubSeq(line, i, j)) + 1 < IntLimit

\* An open interval is passed over where the line ends with it, no error.
WellFormed(line) ==
    /\ line # <<>>
    /\ \A p \in Pieces(line) :
          \/ Denotes(Piece(line, p)) # {}
          \/ p[2] = Len(line) /\ IsOpen(Piece(line, p))

\* The selection has every number that the line names, once, and no other; a
\* line that is not well formed is refused.
MeansWhatItSays(line, selection) ==
    LET nums == selection.nums
    IN  IF WellFormed(line)
        THEN /\ ~selection.error
             /\ {nums[i] : i \in DOMAIN nums}
                    = UNION {Denotes(Piece(line, p)) : p \in Pieces(line)}
             /\ \A i, j \in DOMAIN nums : nums[i] = nums[j] => i = j
        ELSE selection.error
=============================================================================
