CONSTANTS
    list = list
    Lists = {list}
    Tasks = {t1}
    ListOf <- MCListOf
    Schedules <- MCSchedules
    Ticks = {k1, k2}
    Conns = {conn1}
    Main = main
    Crons = {c1, c2}
    NoCron = none
    MaxMinute = 5
    MaxEdits = 0
    MaxExits = 0
SPECIFICATION Spec
INVARIANTS
    ExactlyOnce
