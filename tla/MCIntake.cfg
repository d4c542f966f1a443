\* One submission over two threads and two receivers; four mails, the third one a
\* repetition and the fourth unreadable, rounds of two mails, two workers.
SPECIFICATION FairIntakeSpec
CONSTANTS
    Channels = {"web", "phone"}
    Submissions = {s1}
    Threads = {t1, t2}
    Receivers = {r1, r2}
    None = None
    Mails = 4
    Resent = {3}
    Unreadable = {4}
    Dated = {1, 2}
    MaxResults = 2
    Handled = {1}
    Workers = {w1, w2}
    MaxMade = 1
INVARIANTS
    ArrivesOnce
PROPERTIES
    EverybodyIsHeard
CHECK_DEADLOCK FALSE
