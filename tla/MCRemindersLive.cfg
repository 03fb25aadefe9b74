CONSTANTS
    list = list
    Lists = {list}
    Tasks = {t1}
    ListOf <- MCListOf
    Schedules <- MCSchedules
    Ticks = {k1}
    Conns = {conn1}
    Main = main
    Crons = {c1, c2}
    NoCron = none
    MaxMinute = 3
    MaxEdits = 1
    MaxExits = 1
SPECIFICATION FairSpec
PROPERTIES
    RemindedEventually
    ShutdownProceeds
