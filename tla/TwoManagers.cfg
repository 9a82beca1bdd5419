\* Three people and two emails.
SPECIFICATION SignUpsSpec
CONSTANTS
    People = {p1, p2, p3}
    Emails = {e1, e2}
    NoEmail = NoEmail
INVARIANT OneManager
\* Everyone signs up once: the system may stop.
CHECK_DEADLOCK FALSE
