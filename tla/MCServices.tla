----------------------------- MODULE MCServices -----------------------------
\* Small instances of the services: two lots whose values share a word, two
\* notifications, three claims, two requests for an order.
EXTENDS Services
=============================================================================
